---- MODULE Spec2Model ----
(***************************************************************************)
(* The Intcode engine of src/intcode/src/lib.rs: Parameter, Operation      *)
(* (decode, execute, width) and the decode-execute loop of                 *)
(* Computer::execute, run by the buffered entry point execute(program,     *)
(* input) through execute_with_output, and Computer::execute invoked again *)
(* on the same Computer.  Memory cell i of the Rust Vec is element i+1 of  *)
(* the sequence.                                                           *)
(***************************************************************************)
EXTENDS Integers, Sequences, FiniteSets, TLC

VARIABLES
    initial,        \* the program handed to Computer::new (never changes)
    program,        \* Computer.program : Vec<Byte>
    pc,             \* Computer.pc
    relative_base,  \* Computer.relative_base
    input_values,   \* the input argument of execute (never changes)
    input_pos,      \* how many values the input iterator has yielded
    output,         \* the Output vector of execute
    op,             \* the local `op` of the loop: the last decoded Operation
    result,         \* "Running", "Halted" (Ok), "Failed" (Err), "Panicked"
    error,          \* the message of the Err or of the panic
    callers_program,\* the `program: &mut Program` of execute_with_output
    calls,          \* how many times Computer::execute has been invoked
    runs,           \* two runs of Computer::execute on the same arguments
    wide,           \* a Multiply and an Output on values of the width of Byte
    engines,        \* the engine threads that run on channels
    chans,          \* the channels: queue, live senders, live receivers
    side,           \* the thread of f in execute_side_by_side
    call,           \* the thread that called execute_side_by_side
    amain           \* the thread that called amplifier (day-07)

vars == <<initial, program, pc, relative_base, input_values, input_pos, output, op,
          result, error, callers_program, calls, runs, wide,
          engines, chans, side, call, amain>>

\* the variables of the single run of execute / execute_with_output, apart
\* from its arguments initial and input_values
run_vars == <<program, pc, relative_base, input_pos, output, op, result, error,
              callers_program, calls>>

\* the arguments of execute
arg_vars == <<initial, input_values>>

\* the threads and channels of the concurrent entry points
chan_vars == <<engines, chans, side, call, amain>>

\* the variables the single run leaves alone
other_vars == <<runs, wide, chan_vars>>

\* no second run to compare with
TwinIdle == runs = <<>>

\* no arithmetic at the width of Byte
WideIdle == wide = <<>>

\* no threads and no channels
ChanIdle ==
    /\ engines = <<>>
    /\ chans = <<>>
    /\ side = <<>>
    /\ call = <<>>
    /\ amain = <<>>

----------------------------------------------------------------------------
(* Bounds of the model *)

\* operand cells of the generated programs range over -1..MaxVal and FarAddr
MaxVal == 1
\* an address beyond the end of every generated program
FarAddr == 12
\* steps that would grow memory, pc or the relative base past this are cut
MaxMemory == 110
\* Computer::execute is invoked at most this many times on one Computer
MaxCalls == 2
\* a run that is compared with a second run makes at most this many steps
MaxSteps == 90
\* steps that would store or emit a value beyond +-MaxByte are cut
MaxByte == 40000

----------------------------------------------------------------------------
(* Rust integer arithmetic: `%` and `/` truncate toward zero *)

\* the remainder with the sign of the divisor
Rem_floor(a, b) == a % b

Rem(a, b) == IF a >= 0 THEN a % b ELSE -((-a) % b)

Quot(a, b) == IF a >= 0 THEN a \div b ELSE -((-a) \div b)

RECURSIVE Pow10(_)
Pow10(k) == IF k = 0 THEN 1 ELSE 10 * Pow10(k - 1)

\* program.get(a).copied(): the cell at index a, for 0 <= a < len
Cell(mem, a) == mem[a + 1]

----------------------------------------------------------------------------
(* enum Parameter *)

Position(p) == [mode |-> "Position", v |-> p]

Immediate(i) == [mode |-> "Immediate", v |-> i]

Relative(r) == [mode |-> "Relative", v |-> r]

NoParam == [mode |-> "None", v |-> 0]

\* Result<Parameter>: value.try_into() fails for a negative Position
\* from_mode_and_value taking the magnitude of a negative Position value
from_mode_and_value_abs(mode, value) ==
    CASE mode = 0 ->
            [ok |-> TRUE, param |-> Position(IF value >= 0 THEN value ELSE -value),
             error |-> ""]
      [] mode = 1 -> [ok |-> TRUE, param |-> Immediate(value), error |-> ""]
      [] mode = 2 -> [ok |-> TRUE, param |-> Relative(value), error |-> ""]
      [] OTHER -> [ok |-> FALSE, param |-> NoParam, error |-> "Unknown mode"]

\* from_mode_and_value taking an unknown mode for Position
from_mode_and_value_lenient(mode, value) ==
    CASE mode = 1 -> [ok |-> TRUE, param |-> Immediate(value), error |-> ""]
      [] mode = 2 -> [ok |-> TRUE, param |-> Relative(value), error |-> ""]
      [] OTHER ->
            IF value >= 0
            THEN [ok |-> TRUE, param |-> Position(value), error |-> ""]
            ELSE [ok |-> FALSE, param |-> NoParam, error |-> "TryFromIntError"]

from_mode_and_value(mode, value) ==
    CASE mode = 0 ->
            IF value >= 0
            THEN [ok |-> TRUE, param |-> Position(value), error |-> ""]
            ELSE [ok |-> FALSE, param |-> NoParam, error |-> "TryFromIntError"]
      [] mode = 1 -> [ok |-> TRUE, param |-> Immediate(value), error |-> ""]
      [] mode = 2 -> [ok |-> TRUE, param |-> Relative(value), error |-> ""]
      [] OTHER -> [ok |-> FALSE, param |-> NoParam, error |-> "Unknown mode"]

\* read with unwrap_or(1)
read_default_one(p, mem, rb) ==
    CASE p.mode = "Position" ->
            [panic |-> "", value |-> IF p.v < Len(mem) THEN Cell(mem, p.v) ELSE 1]
      [] p.mode = "Immediate" -> [panic |-> "", value |-> p.v]
      [] p.mode = "Relative" ->
            IF rb + p.v < 0
            THEN [panic |-> "Cannot convert absolute address", value |-> 0]
            ELSE [panic |-> "",
                  value |-> IF rb + p.v < Len(mem) THEN Cell(mem, rb + p.v) ELSE 1]

\* Parameter::read: [panic, value]; memory is not touched
\* read yielding 0 at a negative relative address
read_negative_zero(p, mem, rb) ==
    CASE p.mode = "Position" ->
            [panic |-> "", value |-> IF p.v < Len(mem) THEN Cell(mem, p.v) ELSE 0]
      [] p.mode = "Immediate" -> [panic |-> "", value |-> p.v]
      [] p.mode = "Relative" ->
            [panic |-> "",
             value |-> IF rb + p.v >= 0 /\ rb + p.v < Len(mem)
                       THEN Cell(mem, rb + p.v) ELSE 0]

read(p, mem, rb) ==
    CASE p.mode = "Position" ->
            [panic |-> "", value |-> IF p.v < Len(mem) THEN Cell(mem, p.v) ELSE 0]
      [] p.mode = "Immediate" -> [panic |-> "", value |-> p.v]
      [] p.mode = "Relative" ->
            IF rb + p.v < 0
            THEN [panic |-> "Cannot convert absolute address", value |-> 0]
            ELSE [panic |-> "",
                  value |-> IF rb + p.v < Len(mem) THEN Cell(mem, rb + p.v) ELSE 0]

\* store resizing to a + 2
store_long(mem, a, value) ==
    [i \in 1..(IF Len(mem) <= a THEN a + 2 ELSE Len(mem)) |->
        IF i = a + 1 THEN value
        ELSE IF i <= Len(mem) THEN mem[i] ELSE 0]

\* store resizing to a + 1 whatever the length
store_truncating(mem, a, value) ==
    [i \in 1..(a + 1) |->
        IF i = a + 1 THEN value
        ELSE IF i <= Len(mem) THEN mem[i] ELSE 0]

\* program.resize(a + 1, 0) when len <= a, then program[a] = value
store(mem, a, value) ==
    [i \in 1..(IF Len(mem) <= a THEN a + 1 ELSE Len(mem)) |->
        IF i = a + 1 THEN value
        ELSE IF i <= Len(mem) THEN mem[i] ELSE 0]

\* Parameter::write: [panic, program]
\* write dropping the value of a write through an Immediate parameter
write_immediate_ignored(p, mem, rb, value) ==
    CASE p.mode = "Position" -> [panic |-> "", program |-> store(mem, p.v, value)]
      [] p.mode = "Immediate" -> [panic |-> "", program |-> mem]
      [] p.mode = "Relative" ->
            IF rb + p.v < 0
            THEN [panic |-> "Cannot convert absolute address", program |-> mem]
            ELSE [panic |-> "", program |-> store(mem, rb + p.v, value)]

write(p, mem, rb, value) ==
    CASE p.mode = "Position" -> [panic |-> "", program |-> store(mem, p.v, value)]
      [] p.mode = "Immediate" ->
            [panic |-> "Must not write to immediate parameter", program |-> mem]
      [] p.mode = "Relative" ->
            IF rb + p.v < 0
            THEN [panic |-> "Cannot convert absolute address", program |-> mem]
            ELSE [panic |-> "", program |-> store(mem, rb + p.v, value)]

----------------------------------------------------------------------------
(* enum Operation: decoding *)

NoOp == [name |-> "None", p |-> <<>>]

Halt == [name |-> "Halt", p |-> <<>>]

\* modes with the divisor one digit too low
modes_shifted(raw_op, k) == Quot(Rem(raw_op, Pow10(k + 1) * 10), Pow10(k))

\* Operation::modes: the k-th item of the iterator (k = 1, 2, ...)
modes(raw_op, k) == Quot(Rem(raw_op, Pow10(k + 1) * 10), Pow10(k + 1))

\* params reading the cells past the end of memory as zeros
params_zero_extended(mem, pc0) ==
    [k \in 1..3 |->
        from_mode_and_value(modes(Cell(mem, pc0), k),
                            IF pc0 + k < Len(mem) THEN Cell(mem, pc0 + k) ELSE 0)]

\* Operation::params: the modes zipped with the cells after pc; tuples() pulls
\* at most three of them.  Only used with pc < Len(mem).
params(mem, pc0) ==
    LET avail == Len(mem) - pc0 - 1
        n == IF avail < 3 THEN avail ELSE 3
    IN  [k \in 1..n |-> from_mode_and_value(modes(Cell(mem, pc0), k), Cell(mem, pc0 + k))]

\* a?, b?, c? in order: the error of the first parameter that failed
collect(ps, n, bad) ==
    IF bad # {}
    THEN [ok |-> FALSE, ps |-> <<>>,
          error |-> ps[CHOOSE k \in bad : \A j \in bad : k <= j].error]
    ELSE [ok |-> TRUE, ps |-> [k \in 1..n |-> ps[k].param], error |-> ""]

\* tuples().next().ok_or("Not enough arguments")?
first_tuple(ps, n) ==
    IF Len(ps) < n
    THEN [ok |-> FALSE, ps |-> <<>>, error |-> "Not enough arguments"]
    ELSE collect(ps, n, {k \in 1..n : ~ps[k].ok})

decode_params(mem, pc0, n) == first_tuple(params(mem, pc0), n)

decode_single_param(mem, pc0) == decode_params(mem, pc0, 1)

decode_two_params(mem, pc0) == decode_params(mem, pc0, 2)

decode_three_params(mem, pc0) == decode_params(mem, pc0, 3)

\* the opcode table of Operation::decode
OpName(opcode) ==
    CASE opcode = 1 -> "Add"
      [] opcode = 2 -> "Multiply"
      [] opcode = 3 -> "Input"
      [] opcode = 4 -> "Output"
      [] opcode = 5 -> "JumpIfTrue"
      [] opcode = 6 -> "JumpIfFalse"
      [] opcode = 7 -> "LessThan"
      [] opcode = 8 -> "Equals"
      [] opcode = 9 -> "AdjustRelativeBase"
      [] opcode = 99 -> "Halt"
      [] OTHER -> "Unknown"

\* width with AdjustRelativeBase counted among the three-cell instructions
width_adjust3(o) ==
    CASE o.name \in {"Add", "Multiply", "LessThan", "Equals"} -> 4
      [] o.name \in {"Input", "Output"} -> 2
      [] o.name \in {"JumpIfTrue", "JumpIfFalse", "AdjustRelativeBase"} -> 3
      [] o.name = "Halt" -> 1

\* Operation::width
width(o) ==
    CASE o.name \in {"Add", "Multiply", "LessThan", "Equals"} -> 4
      [] o.name \in {"Input", "Output", "AdjustRelativeBase"} -> 2
      [] o.name \in {"JumpIfTrue", "JumpIfFalse"} -> 3
      [] o.name = "Halt" -> 1

\* the arms of the match of Operation::decode
decode_arm(name, d) ==
    IF name = "Unknown"
    THEN [kind |-> "Err", op |-> NoOp, error |-> "Unknown opcode"]
    ELSE IF ~d.ok
    THEN [kind |-> "Err", op |-> NoOp, error |-> d.error]
    ELSE [kind |-> "Ok", op |-> [name |-> name, p |-> d.ps], error |-> ""]

decode_opcode(mem, pc0, name) ==
    decode_arm(name,
        CASE name \in {"Add", "Multiply", "LessThan", "Equals"} ->
                decode_three_params(mem, pc0)
          [] name \in {"JumpIfTrue", "JumpIfFalse"} -> decode_two_params(mem, pc0)
          [] name \in {"Input", "Output", "AdjustRelativeBase"} ->
                decode_single_param(mem, pc0)
          [] OTHER -> [ok |-> TRUE, ps |-> <<>>, error |-> ""])

\* Operation::decode: [kind, op, error], kind "Ok", "Err" or "Panic".
\* program[pc] indexes the Vec: it panics when pc is not below the length.
decode(mem, pc0) ==
    IF pc0 >= Len(mem)
    THEN [kind |-> "Panic", op |-> NoOp, error |-> "index out of bounds"]
    ELSE decode_opcode(mem, pc0, OpName(Rem(Cell(mem, pc0), 100)))

----------------------------------------------------------------------------
(* Operation::execute.  A machine state is a record                        *)
(* [program, pc, relative_base, input_pos, output, result, error]; execute *)
(* returns the state after the instruction, with result "Running" for      *)
(* Ok(()), "Failed" for an Err and "Panicked" for a panic.                 *)

Fail(st, msg) == [st EXCEPT !.result = "Failed", !.error = msg]

Panic(st, msg) == [st EXCEPT !.result = "Panicked", !.error = msg]

\* the first panic among reads made in order, "" when none panics
FirstPanic(rs) ==
    IF \A k \in 1..Len(rs) : rs[k].panic = "" THEN ""
    ELSE rs[CHOOSE k \in 1..Len(rs) :
                rs[k].panic # "" /\ \A j \in 1..(k - 1) : rs[j].panic = ""].panic

\* Apply with the closure of Add handed to Multiply as well
Apply_sum(f, l, r) ==
    CASE f \in {"Add", "Multiply"} -> l + r
      [] f = "LessThan" -> IF l < r THEN 1 ELSE 0
      [] f = "Equals" -> IF l = r THEN 1 ELSE 0

\* Apply with LessThan comparing by <=
Apply_le(f, l, r) ==
    CASE f = "Add" -> l + r
      [] f = "Multiply" -> l * r
      [] f = "LessThan" -> IF l <= r THEN 1 ELSE 0
      [] f = "Equals" -> IF l = r THEN 1 ELSE 0

\* the closures handed to binop, and the comparisons of LessThan and Equals
Apply(f, l, r) ==
    CASE f = "Add" -> l + r
      [] f = "Multiply" -> l * r
      [] f = "LessThan" -> IF l < r THEN 1 ELSE 0
      [] f = "Equals" -> IF l = r THEN 1 ELSE 0

\* the write of binop, reached when neither read panicked
binop_write(mem, rb, lv, rv, o, f, panic) ==
    IF panic # ""
    THEN [panic |-> panic, program |-> mem]
    ELSE write(o, mem, rb, Apply(f, lv.value, rv.value))

binop_reads(mem, rb, lv, rv, o, f) ==
    binop_write(mem, rb, lv, rv, o, f, FirstPanic(<<lv, rv>>))

\* Operation::binop: read l, read r, write f(l, r) through o: [panic, program].
\* LessThan and Equals do the same with their comparison as f.
binop(mem, rb, l, r, o, f) ==
    binop_reads(mem, rb, read(l, mem, rb), read(r, mem, rb), o, f)

after_binop(o, st, b) ==
    IF b.panic # "" THEN Panic(st, b.panic)
    ELSE [st EXCEPT !.program = b.program, !.pc = @ + width(o)]

\* the arms Add, Multiply, LessThan, Equals
exec_binop(o, st) ==
    after_binop(o, st,
        binop(st.program, st.relative_base, o.p[1], o.p[2], o.p[3], o.name))

\* after_input without advancing the input iterator
after_input_stuck(o, st, w) ==
    IF w.panic # ""
    THEN Panic(st, w.panic)
    ELSE [st EXCEPT !.program = w.program, !.pc = @ + width(o)]

after_input(o, st, w) ==
    IF w.panic # ""
    THEN Panic([st EXCEPT !.input_pos = @ + 1], w.panic)
    ELSE [st EXCEPT !.input_pos = @ + 1, !.program = w.program,
                    !.pc = @ + width(o)]

\* exec_input ending the run with Ok(()) when the input is exhausted
exec_input_eof(o, st, inputs) ==
    IF st.input_pos >= Len(inputs)
    THEN [st EXCEPT !.result = "Halted"]
    ELSE after_input(o, st,
            write(o.p[1], st.program, st.relative_base, inputs[st.input_pos + 1]))

\* exec_input moving past the instruction before it reports exhaustion
exec_input_skip(o, st, inputs) ==
    IF st.input_pos >= Len(inputs)
    THEN Fail([st EXCEPT !.pc = @ + width(o)], "No more input is available")
    ELSE after_input(o, st,
            write(o.p[1], st.program, st.relative_base, inputs[st.input_pos + 1]))

\* the arm Input: input.next() first, then the write
exec_input(o, st, inputs) ==
    IF st.input_pos >= Len(inputs)
    THEN Fail(st, "No more input is available")
    ELSE after_input(o, st,
            write(o.p[1], st.program, st.relative_base, inputs[st.input_pos + 1]))

after_output(o, st, v) ==
    IF v.panic # "" THEN Panic(st, v.panic)
    ELSE [st EXCEPT !.output = Append(@, v.value), !.pc = @ + width(o)]

\* the arm Output
exec_output(o, st) ==
    after_output(o, st, read(o.p[1], st.program, st.relative_base))

\* jump_to with the width of the jump added to the target
jump_to_plus_width(st, l) ==
    IF l.panic # "" THEN Panic(st, l.panic)
    ELSE IF l.value < 0 THEN Fail(st, "TryFromIntError")
    ELSE [st EXCEPT !.pc = l.value + 3]

\* a taken jump: the target is read, and try_into()? fails when it is negative
jump_to(st, l) ==
    IF l.panic # "" THEN Panic(st, l.panic)
    ELSE IF l.value < 0 THEN Fail(st, "TryFromIntError")
    ELSE [st EXCEPT !.pc = l.value]

after_cond(o, st, when_true, c) ==
    IF c.panic # "" THEN Panic(st, c.panic)
    ELSE IF (c.value # 0) = when_true
    THEN jump_to(st, read(o.p[2], st.program, st.relative_base))
    ELSE [st EXCEPT !.pc = @ + width(o)]

\* exec_jump with the two conditions exchanged
exec_jump_inverted(o, st, when_true) ==
    after_cond(o, st, ~when_true, read(o.p[1], st.program, st.relative_base))

\* the arms JumpIfTrue (when_true) and JumpIfFalse
exec_jump(o, st, when_true) ==
    after_cond(o, st, when_true, read(o.p[1], st.program, st.relative_base))

\* after_adjust assigning the operand to the relative base
after_adjust_assign(o, st, r) ==
    IF r.panic # "" THEN Panic(st, r.panic)
    ELSE IF r.value < 0
    THEN Panic(st, "Cannot convert absolute address")
    ELSE [st EXCEPT !.relative_base = r.value, !.pc = @ + width(o)]

\* after_adjust storing whatever the sum is
after_adjust_unchecked(o, st, r) ==
    IF r.panic # "" THEN Panic(st, r.panic)
    ELSE [st EXCEPT !.relative_base = @ + r.value, !.pc = @ + width(o)]

after_adjust(o, st, r) ==
    IF r.panic # "" THEN Panic(st, r.panic)
    ELSE IF st.relative_base + r.value < 0
    THEN Panic(st, "Cannot convert absolute address")
    ELSE [st EXCEPT !.relative_base = @ + r.value, !.pc = @ + width(o)]

\* the arm AdjustRelativeBase
exec_adjust(o, st) ==
    after_adjust(o, st, read(o.p[1], st.program, st.relative_base))

execute(o, st, inputs) ==
    CASE o.name = "Add" -> exec_binop(o, st)
      [] o.name = "Multiply" -> exec_binop(o, st)
      [] o.name = "Input" -> exec_input(o, st, inputs)
      [] o.name = "Output" -> exec_output(o, st)
      [] o.name = "JumpIfTrue" -> exec_jump(o, st, TRUE)
      [] o.name = "JumpIfFalse" -> exec_jump(o, st, FALSE)
      [] o.name = "LessThan" -> exec_binop(o, st)
      [] o.name = "Equals" -> exec_binop(o, st)
      [] o.name = "AdjustRelativeBase" -> exec_adjust(o, st)
      [] o.name = "Halt" -> [st EXCEPT !.pc = @ + width(o)]

\* `if op == Operation::Halt { break }`, then Ok(())
after_execute(o, e) ==
    [st |-> IF o.name = "Halt" /\ e.result = "Running"
            THEN [e EXCEPT !.result = "Halted"] ELSE e,
     op |-> o]

after_decode(st, inputs, d) ==
    CASE d.kind = "Panic" -> [st |-> Panic(st, d.error), op |-> NoOp]
      [] d.kind = "Err" -> [st |-> Fail(st, d.error), op |-> NoOp]
      [] OTHER -> after_execute(d.op, execute(d.op, st, inputs))

\* iteration decoding from the program as Computer::new received it
iteration_cached(st, inputs) == after_decode(st, inputs, decode(initial, st.pc))

\* iteration decoding at the program counter of the first of two runs
iteration_shared_pc(st, inputs) ==
    after_decode(st, inputs, decode(st.program, runs[1].st.pc))

\* one iteration of the loop of Computer::execute: decode, execute, and
\* break with Ok(()) after Halt: [st, op]
iteration(st, inputs) == after_decode(st, inputs, decode(st.program, st.pc))

----------------------------------------------------------------------------
(* The programs and inputs the runs start from *)

\* the programs of the tests of src/intcode/src/lib.rs and EXAMPLE_PROGRAM_1
\* of src/day-07/src/main.rs
TestPrograms ==
    { <<1, 0, 0, 0, 99>>,
      <<2, 3, 0, 3, 99>>,
      <<2, 4, 4, 5, 99, 0>>,
      <<1, 1, 1, 4, 99, 5, 6, 0, 99>>,
      <<1002, 4, 3, 4, 33>>,
      <<3, 0, 4, 0, 99>>,
      <<3, 9, 8, 9, 10, 9, 4, 9, 99, -1, 8>>,
      <<3, 9, 7, 9, 10, 9, 4, 9, 99, -1, 8>>,
      <<3, 3, 1108, -1, 8, 3, 4, 3, 99>>,
      <<3, 3, 1107, -1, 8, 3, 4, 3, 99>>,
      <<3, 12, 6, 12, 15, 1, 13, 14, 13, 4, 13, 99, -1, 0, 1, 9>>,
      <<3, 3, 1105, -1, 9, 1101, 0, 0, 12, 4, 12, 99, 1>>,
      <<3, 15, 3, 16, 1002, 16, 10, 16, 1, 16, 15, 15, 4, 15, 99, 0, 0>> }

\* the values fed to the test programs
TestInputVals == (-1..MaxVal) \cup {7, 8, 9, 42, 100}

TestInputs ==
    {<<>>} \cup {<<a>> : a \in TestInputVals}
           \cup {<<a, b>> : a \in TestInputVals, b \in TestInputVals}

\* operand cells of the generated programs
Vals == (-1..MaxVal) \cup {FarAddr}

\* the instruction cell: opcode plus the mode digits of up to three parameters
Instr(opcode, m) == opcode + 100 * m[1] + 1000 * m[2] + 10000 * m[3]

Arity(opcode) ==
    CASE opcode \in {1, 2, 7, 8} -> 3
      [] opcode \in {5, 6} -> 2
      [] opcode \in {3, 4, 9} -> 1
      [] OTHER -> 0

\* one instruction of every opcode, mode combination and operand values,
\* followed by Halt and two data cells
OneInstruction ==
    UNION { { <<Instr(opcode, m)>> \o SubSeq(a, 1, Arity(opcode)) \o <<99, 5, 6>> :
                m \in { mm \in [1..3 -> 0..2] :
                          \A k \in 1..3 : k > Arity(opcode) => mm[k] = 0 },
                a \in { aa \in [1..3 -> Vals] :
                          \A k \in 1..3 : k > Arity(opcode) => aa[k] = 0 } } :
            opcode \in (0..9) \cup {99} }

\* the same after moving the relative base beyond the end of the program
GenPrograms == OneInstruction \cup { <<109, FarAddr>> \o g : g \in OneInstruction }

GenInputs == {<<>>, <<7>>}

\* move the relative base beyond the end of the program, store an input
\* through a Relative parameter, move the base again and emit the same cell
\* through a Relative parameter
RelativePrograms ==
    { <<109, FarAddr, 203, off, 109, d, 204, off - d, 99>> :
        off \in -1..MaxVal, d \in -1..MaxVal }

\* tests::quine: a program that emits its own cells
Quine == <<109, 1, 204, -1, 1001, 100, 1, 100, 1008, 100, 16, 101, 1006, 101, 0, 99>>

\* programs that go on after a Halt: a Halt, then a program of the tests
ResumePrograms == { <<99>> \o t : t \in TestPrograms }

\* programs that fail after a write: an Add that stores 2 in cell 0, then an
\* unknown opcode, an Input, a write through an Immediate parameter, a read
\* at a negative relative address, or the end of memory
MidFailPrograms ==
    { <<1101, 1, 1, 0>> \o f :
        f \in { <<0>>, <<3, 0>>, <<11101, 0, 0, 0>>, <<204, -1>>, <<>> } }

\* instruction cells with a mode digit of 3 or 9 among their three digits
\* (the third no more than 3, for MaxByte), in front of a first operand of
\* -1 or 0; an Output without its operand cell; negative instruction cells
BadModePrograms ==
    { <<Instr(opcode, m), a, 0, 0, 99>> :
        opcode \in (1..9) \cup {99},
        m \in { mm \in [1..3 -> {0, 1, 3, 9}] :
                  mm[3] # 9 /\ \E k \in 1..3 : mm[k] \in {3, 9} },
        a \in {-1, 0} }
    \cup { <<304>>, <<-301, 0, 0, 0, 99>>, <<-1301, 0, 0, 0, 99>> }

\* execute_with_output up to the call of Computer::execute: the caller's
\* program is replaced by Program::new() and moved into Computer::new
Init ==
    /\ \/ program \in TestPrograms /\ input_values \in TestInputs
       \/ program \in GenPrograms /\ input_values \in GenInputs
       \/ program \in RelativePrograms /\ input_values \in TestInputs
       \/ program = Quine /\ input_values = <<>>
       \/ program \in ResumePrograms /\ input_values \in GenInputs
       \/ program \in MidFailPrograms /\ input_values \in GenInputs
       \/ program \in BadModePrograms /\ input_values \in GenInputs
    /\ callers_program = <<>>
    /\ calls = 1
    /\ TwinIdle
    /\ WideIdle
    /\ ChanIdle
    /\ initial = program
    /\ pc = 0
    /\ relative_base = 0
    /\ input_pos = 0
    /\ output = <<>>
    /\ op = NoOp
    /\ result = "Running"
    /\ error = ""

----------------------------------------------------------------------------
(* The loop of Computer::execute, one action per kind of iteration *)

St == [program |-> program, pc |-> pc, relative_base |-> relative_base,
       input_pos |-> input_pos, output |-> output, result |-> result,
       error |-> error]

\* what the model explores: memory, registers and values within the bounds
InBounds(st) ==
    /\ Len(st.program) <= MaxMemory
    /\ st.pc <= MaxMemory
    /\ st.relative_base <= MaxMemory
    /\ \A i \in 1..Len(st.program) : -MaxByte <= st.program[i] /\ st.program[i] <= MaxByte
    /\ \A i \in 1..Len(st.output) : -MaxByte <= st.output[i] /\ st.output[i] <= MaxByte

\* `std::mem::swap(program, &mut computer.program)` once Computer::execute
\* has returned Ok or Err; a panic unwinds past the swap.  The model keeps
\* the memory of the Computer in `program` after the return.
swap_back(callers, st) ==
    IF st.result \in {"Halted", "Failed"} THEN st.program ELSE callers

Become(it) ==
    /\ InBounds(it.st)
    /\ callers_program' = IF calls = 1 THEN swap_back(callers_program, it.st)
                                       ELSE callers_program
    /\ UNCHANGED calls
    /\ program' = it.st.program
    /\ pc' = it.st.pc
    /\ relative_base' = it.st.relative_base
    /\ input_pos' = it.st.input_pos
    /\ output' = it.st.output
    /\ result' = it.st.result
    /\ error' = it.st.error
    /\ op' = it.op
    /\ UNCHANGED <<initial, input_values>>
    /\ UNCHANGED other_vars

\* the Operation the next iteration decodes ("None" when decode fails)
Decoded == decode(program, pc).op.name

\* an iteration that decodes Add and executes it
Add ==
    /\ result = "Running"
    /\ Decoded = "Add"
    /\ Become(iteration(St, input_values))

\* an iteration that decodes Multiply and executes it
Multiply ==
    /\ result = "Running"
    /\ Decoded = "Multiply"
    /\ Become(iteration(St, input_values))

\* an iteration that decodes Input and executes it
Input ==
    /\ result = "Running"
    /\ Decoded = "Input"
    /\ Become(iteration(St, input_values))

\* an iteration that decodes Output and executes it
Output ==
    /\ result = "Running"
    /\ Decoded = "Output"
    /\ Become(iteration(St, input_values))

\* an iteration that decodes JumpIfTrue and executes it
JumpIfTrue ==
    /\ result = "Running"
    /\ Decoded = "JumpIfTrue"
    /\ Become(iteration(St, input_values))

\* an iteration that decodes JumpIfFalse and executes it
JumpIfFalse ==
    /\ result = "Running"
    /\ Decoded = "JumpIfFalse"
    /\ Become(iteration(St, input_values))

\* an iteration that decodes LessThan and executes it
LessThan ==
    /\ result = "Running"
    /\ Decoded = "LessThan"
    /\ Become(iteration(St, input_values))

\* an iteration that decodes Equals and executes it
Equals ==
    /\ result = "Running"
    /\ Decoded = "Equals"
    /\ Become(iteration(St, input_values))

\* an iteration that decodes AdjustRelativeBase and executes it
AdjustRelativeBase ==
    /\ result = "Running"
    /\ Decoded = "AdjustRelativeBase"
    /\ Become(iteration(St, input_values))

\* an iteration that decodes Halt and executes it
HaltStep ==
    /\ result = "Running"
    /\ Decoded = "Halt"
    /\ Become(iteration(St, input_values))

\* Operation::decode returns an Err: the `?` returns it to the caller
DecodeError ==
    /\ result = "Running"
    /\ decode(program, pc).kind = "Err"
    /\ Become(iteration(St, input_values))

\* Operation::decode panics on program[pc]
DecodePanic ==
    /\ result = "Running"
    /\ decode(program, pc).kind = "Panic"
    /\ Become(iteration(St, input_values))

Next ==
    \/ Add
    \/ Multiply
    \/ Input
    \/ Output
    \/ JumpIfTrue
    \/ JumpIfFalse
    \/ LessThan
    \/ Equals
    \/ AdjustRelativeBase
    \/ HaltStep
    \/ DecodeError
    \/ DecodePanic

Spec == Init /\ [][Next]_vars

\* Computer::execute invoked again on a Computer whose previous invocation
\* returned Ok(()), as play_game does after setup_game in day-13: a new input
\* iterator and a new output, while program, pc and relative_base are the
\* fields the previous invocation left
ExecuteAgain ==
    /\ result = "Halted"
    /\ calls < MaxCalls
    /\ calls' = calls + 1
    /\ input_values' \in GenInputs
    /\ input_pos' = 0
    /\ output' = <<>>
    /\ op' = NoOp
    /\ result' = "Running"
    /\ error' = ""
    /\ UNCHANGED <<initial, program, pc, relative_base, callers_program>>
    /\ UNCHANGED other_vars

NextAgain ==
    \/ Next
    \/ ExecuteAgain

SpecAgain == Init /\ [][NextAgain]_vars

----------------------------------------------------------------------------
(* Two runs of Computer::execute on the same program and the same input *)

\* Computer::new(p) at the call of execute
Fresh(p) ==
    [program |-> p, pc |-> 0, relative_base |-> 0, input_pos |-> 0,
     output |-> <<>>, result |-> "Running", error |-> ""]

\* programs of Add, Multiply and Halt only: two instructions, the first
\* with every mode of its operands, then Halt
AddMulPrograms ==
    { <<Instr(o1, <<m1, m2, 0>>), a, b, c, o2, 0, 5, 0, 99>> :
        o1 \in {1, 2}, m1 \in {0, 1}, m2 \in {0, 1},
        a \in {0, 1, 5}, b \in {0, 1, 5}, c \in {0, 4, 5}, o2 \in {1, 2} }

TwinInputs == {<<>>, <<7>>, <<8, 0>>}

\* the run of this model's other specifications does not take place
RunIdle ==
    /\ program = <<>>
    /\ pc = 0
    /\ relative_base = 0
    /\ input_pos = 0
    /\ output = <<>>
    /\ op = NoOp
    /\ result = "Idle"
    /\ error = ""
    /\ callers_program = <<>>
    /\ calls = 0

InitTwin ==
    /\ \/ initial \in AddMulPrograms /\ input_values = <<>>
       \/ initial \in TestPrograms /\ input_values \in TwinInputs
       \/ initial = Quine /\ input_values = <<>>
    /\ runs = [r \in 1..2 |-> [st |-> Fresh(initial), steps |-> 0]]
    /\ RunIdle
    /\ WideIdle
    /\ ChanIdle

\* one iteration of the loop of Computer::execute in run r
RunStep(r) ==
    /\ runs[r].st.result = "Running"
    /\ runs[r].steps < MaxSteps
    /\ InBounds(iteration(runs[r].st, input_values).st)
    /\ runs' = [runs EXCEPT ![r] = [st |-> iteration(runs[r].st, input_values).st,
                                    steps |-> runs[r].steps + 1]]
    /\ UNCHANGED <<arg_vars, run_vars, wide, chan_vars>>

NextTwin == \E r \in 1..2 : RunStep(r)

SpecTwin == InitTwin /\ [][NextTwin]_vars

----------------------------------------------------------------------------
(* The engine of day 5 (src/day-05/src/main.rs): Byte is i32, memory is a  *)
(* slice of fixed length, a parameter is Position or Immediate.  A machine *)
(* state is the record of the library engine, relative_base staying 0.     *)
(* Within MaxByte no sum or product of two cells leaves the range of i32.  *)

\* `(raw_op % 1000 / 100) == 1` and the like: parameter k is Immediate
day05_mode(raw_op, k) == Quot(Rem(raw_op, Pow10(k + 2)), Pow10(k + 1)) = 1

\* day05_param with the two modes exchanged
day05_param_swapped(raw_op, k, value) ==
    IF ~day05_mode(raw_op, k)
    THEN [ok |-> TRUE, param |-> Immediate(value), error |-> ""]
    ELSE IF value >= 0
    THEN [ok |-> TRUE, param |-> Position(value), error |-> ""]
    ELSE [ok |-> FALSE, param |-> NoParam, error |-> "TryFromIntError"]

\* `if p1_mode { Immediate(p) } else { Position(p.try_into()?) }`
day05_param(raw_op, k, value) ==
    IF day05_mode(raw_op, k)
    THEN [ok |-> TRUE, param |-> Immediate(value), error |-> ""]
    ELSE IF value >= 0
    THEN [ok |-> TRUE, param |-> Position(value), error |-> ""]
    ELSE [ok |-> FALSE, param |-> NoParam, error |-> "TryFromIntError"]

\* the parameters in order, the first failed conversion returned by `?`
day05_collect(ps, n) == collect(ps, n, {k \in 1..n : ~ps[k].ok})

\* decode_single_param, decode_two_params, decode_three_params:
\* `program[pc..][1..][..n]` panics when fewer than n cells follow pc
day05_decode_params(mem, pc0, n) ==
    IF Len(mem) - pc0 - 1 < n
    THEN [kind |-> "Panic", ps |-> <<>>, error |-> "range end index out of range"]
    ELSE [kind |-> "Ok"] @@
         day05_collect([k \in 1..n |->
                           day05_param(Cell(mem, pc0), k, Cell(mem, pc0 + k))], n)

\* the opcode table of Operation::decode of day 5
day05_OpName(opcode) ==
    CASE opcode = 1 -> "Add"
      [] opcode = 2 -> "Multiply"
      [] opcode = 3 -> "Input"
      [] opcode = 4 -> "Output"
      [] opcode = 5 -> "JumpIfTrue"
      [] opcode = 6 -> "JumpIfFalse"
      [] opcode = 7 -> "LessThan"
      [] opcode = 8 -> "Equals"
      [] opcode = 99 -> "Halt"
      [] OTHER -> "Unknown"

day05_decode_arm(name, d) ==
    IF name = "Unknown"
    THEN [kind |-> "Err", op |-> NoOp, error |-> "Unknown opcode"]
    ELSE IF d.kind = "Panic"
    THEN [kind |-> "Panic", op |-> NoOp, error |-> d.error]
    ELSE IF ~d.ok
    THEN [kind |-> "Err", op |-> NoOp, error |-> d.error]
    ELSE [kind |-> "Ok", op |-> [name |-> name, p |-> d.ps], error |-> ""]

day05_decode_opcode(mem, pc0, name) ==
    day05_decode_arm(name,
        CASE name \in {"Add", "Multiply", "LessThan", "Equals"} ->
                day05_decode_params(mem, pc0, 3)
          [] name \in {"JumpIfTrue", "JumpIfFalse"} -> day05_decode_params(mem, pc0, 2)
          [] name \in {"Input", "Output"} -> day05_decode_params(mem, pc0, 1)
          [] OTHER -> [kind |-> "Ok", ok |-> TRUE, ps |-> <<>>, error |-> ""])

\* Operation::decode of day 5: [kind, op, error]; program[pc] panics when pc
\* is not below the length of the slice
day05_decode(mem, pc0) ==
    IF pc0 >= Len(mem)
    THEN [kind |-> "Panic", op |-> NoOp, error |-> "index out of bounds"]
    ELSE day05_decode_opcode(mem, pc0, day05_OpName(Rem(Cell(mem, pc0), 100)))

\* Parameter::read of day 5: program[p] panics outside the slice
day05_read(p, mem) ==
    CASE p.mode = "Position" ->
            IF p.v < Len(mem)
            THEN [panic |-> "", value |-> Cell(mem, p.v)]
            ELSE [panic |-> "index out of bounds", value |-> 0]
      [] p.mode = "Immediate" -> [panic |-> "", value |-> p.v]

\* Parameter::write of day 5
day05_write(p, mem, value) ==
    CASE p.mode = "Position" ->
            IF p.v < Len(mem)
            THEN [panic |-> "", program |-> [mem EXCEPT ![p.v + 1] = value]]
            ELSE [panic |-> "index out of bounds", program |-> mem]
      [] p.mode = "Immediate" ->
            [panic |-> "Must not write to immediate parameter", program |-> mem]

day05_binop_write(mem, lv, rv, o, f, panic) ==
    IF panic # ""
    THEN [panic |-> panic, program |-> mem]
    ELSE day05_write(o, mem, Apply(f, lv.value, rv.value))

\* Operation::binop of day 5, and the arms LessThan and Equals: read l,
\* read r, write through o
day05_binop(mem, l, r, o, f) ==
    day05_binop_write(mem, day05_read(l, mem), day05_read(r, mem), o, f,
                      FirstPanic(<<day05_read(l, mem), day05_read(r, mem)>>))

day05_after_write(o, st, b) ==
    IF b.panic # "" THEN Panic(st, b.panic)
    ELSE [st EXCEPT !.program = b.program, !.pc = @ + width(o)]

\* the arm Input: input.next() first, then the write
day05_exec_input(o, st, inputs) ==
    IF st.input_pos >= Len(inputs)
    THEN Fail(st, "No more input is available")
    ELSE day05_after_write(o, [st EXCEPT !.input_pos = @ + 1],
                           day05_write(o.p[1], st.program, inputs[st.input_pos + 1]))

day05_after_output(o, st, v) ==
    IF v.panic # "" THEN Panic(st, v.panic)
    ELSE [st EXCEPT !.output = Append(@, v.value), !.pc = @ + width(o)]

\* `*pc = l.read(program).try_into()?`
day05_jump_to(st, l) ==
    IF l.panic # "" THEN Panic(st, l.panic)
    ELSE IF l.value < 0 THEN Fail(st, "TryFromIntError")
    ELSE [st EXCEPT !.pc = l.value]

day05_after_cond(o, st, when_true, c) ==
    IF c.panic # "" THEN Panic(st, c.panic)
    ELSE IF (c.value # 0) = when_true
    THEN day05_jump_to(st, day05_read(o.p[2], st.program))
    ELSE [st EXCEPT !.pc = @ + width(o)]

\* Operation::execute of day 5
day05_execute(o, st, inputs) ==
    CASE o.name \in {"Add", "Multiply", "LessThan", "Equals"} ->
            day05_after_write(o, st,
                day05_binop(st.program, o.p[1], o.p[2], o.p[3], o.name))
      [] o.name = "Input" -> day05_exec_input(o, st, inputs)
      [] o.name = "Output" -> day05_after_output(o, st, day05_read(o.p[1], st.program))
      [] o.name = "JumpIfTrue" ->
            day05_after_cond(o, st, TRUE, day05_read(o.p[1], st.program))
      [] o.name = "JumpIfFalse" ->
            day05_after_cond(o, st, FALSE, day05_read(o.p[1], st.program))
      [] o.name = "Halt" -> st

day05_after_decode(st, inputs, d) ==
    CASE d.kind = "Panic" -> Panic(st, d.error)
      [] d.kind = "Err" -> Fail(st, d.error)
      [] d.op.name = "Halt" -> [st EXCEPT !.result = "Halted"]
      [] OTHER -> day05_execute(d.op, st, inputs)

\* one iteration of the loop of execute of day 5: decode, break with
\* Ok(output) at a Halt, execute
day05_iteration(st, inputs) ==
    day05_after_decode(st, inputs, day05_decode(st.program, st.pc))

\* the instruction at pc is one of day 5: opcode 1-8 or 99, with mode digit
\* 0 or 1 for each of its parameters
InDay05(st) ==
    /\ st.pc < Len(st.program)
    /\ Rem(Cell(st.program, st.pc), 100) \in (1..8) \cup {99}
    /\ \A k \in 1..Arity(Rem(Cell(st.program, st.pc), 100)) :
            modes(Cell(st.program, st.pc), k) \in {0, 1}

Day05Inputs == {<<>>, <<7>>, <<8, 0>>, <<0>>, <<100>>}

\* run 1 is the library engine and run 2 the engine of day 5, on the same
\* program and input; `foreign` records that a run has met an instruction
\* that is not one of day 5
InitDay05 ==
    /\ \/ initial \in TestPrograms /\ input_values \in Day05Inputs
       \/ initial \in OneInstruction /\ input_values \in GenInputs
       \/ initial \in MidFailPrograms /\ input_values \in GenInputs
       \/ initial \in BadModePrograms /\ input_values \in GenInputs
    /\ runs = [r \in 1..2 |-> [st |-> Fresh(initial), steps |-> 0, foreign |-> FALSE]]
    /\ RunIdle
    /\ WideIdle
    /\ ChanIdle

Day05Become(r, st) ==
    /\ runs[r].steps < MaxSteps
    /\ InBounds(st)
    /\ runs' = [runs EXCEPT ![r] = [st |-> st, steps |-> runs[r].steps + 1,
                                    foreign |-> runs[r].foreign \/ ~InDay05(runs[r].st)]]
    /\ UNCHANGED <<arg_vars, run_vars, wide, chan_vars>>

\* one iteration of the loop of Computer::execute
LibraryStep ==
    /\ runs[1].st.result = "Running"
    /\ Day05Become(1, iteration(runs[1].st, input_values).st)

\* one iteration of the loop of execute of day 5
Day05Step ==
    /\ runs[2].st.result = "Running"
    /\ Day05Become(2, day05_iteration(runs[2].st, input_values))

NextDay05 ==
    \/ LibraryStep
    \/ Day05Step

SpecDay05 == InitDay05 /\ [][NextDay05]_vars

----------------------------------------------------------------------------
(* Multiply and Output at the width of Byte.  A magnitude is the sequence  *)
(* of its digits in base Limb, least significant first, without leading    *)
(* zeros; a value is a sign and a magnitude.                               *)

Limb == 10000

normalize(a) ==
    IF a = <<>> THEN a
    ELSE SubSeq(a, 1, CHOOSE n \in 0..Len(a) :
                        /\ \A i \in (n + 1)..Len(a) : a[i] = 0
                        /\ n > 0 => a[n] # 0)

RECURSIVE add_carry(_, _, _)
add_carry(a, b, c) ==
    IF a = <<>> /\ b = <<>> THEN (IF c = 0 THEN <<>> ELSE <<c>>)
    ELSE IF a = <<>> THEN add_carry(<<0>>, b, c)
    ELSE IF b = <<>> THEN add_carry(a, <<0>>, c)
    ELSE <<(Head(a) + Head(b) + c) % Limb>>
            \o add_carry(Tail(a), Tail(b), (Head(a) + Head(b) + c) \div Limb)

RECURSIVE mul_limb(_, _, _)
mul_limb(a, d, c) ==
    IF a = <<>> THEN (IF c = 0 THEN <<>> ELSE <<c>>)
    ELSE <<(Head(a) * d + c) % Limb>>
            \o mul_limb(Tail(a), d, (Head(a) * d + c) \div Limb)

\* the product of two magnitudes, digit by digit
RECURSIVE mul_mag(_, _)
mul_mag(a, b) ==
    IF b = <<>> THEN <<>>
    ELSE normalize(add_carry(mul_limb(a, Head(b), 0), <<0>> \o mul_mag(a, Tail(b)), 0))

\* a < b for magnitudes
less_mag(a, b) ==
    \/ Len(a) < Len(b)
    \/ /\ Len(a) = Len(b)
       /\ \E i \in 1..Len(a) :
            /\ a[i] < b[i]
            /\ \A j \in (i + 1)..Len(a) : a[j] = b[j]

Wide(neg, mag) == [neg |-> neg /\ mag # <<>>, mag |-> mag]

\* 2^63: Byte as a 64-bit integer
ByteLimit_i64 == <<5808, 5477, 368, 3372, 922>>

\* `pub type Byte = i128`: 2^127, the values are -2^127 .. 2^127 - 1
ByteLimit == <<5728, 8410, 7158, 7303, 3168, 2317, 469, 8346, 1411, 170>>

\* the value is a Byte
in_byte(x) == less_mag(x.mag, ByteLimit) \/ (x.neg /\ x.mag = ByteLimit)

\* `l * r` on Byte: the product, or an overflow
wide_mul(l, r) == Wide(l.neg # r.neg, mul_mag(l.mag, r.mag))

\* 2^63: the limit of the signed 64-bit range
Limit64 == <<5808, 5477, 368, 3372, 922>>

\* operand values: small ones, the factors of tests::sixteen_digit and
\* around 2^25, the literal of tests::big_number, the ends of the signed
\* 64-bit range, and 2^64 and 2^126 beyond it
WideMags ==
    { <<>>, <<1>>, <<3>>, <<5192, 3491>>, <<4432, 3355>>, <<4433, 3355>>,
      <<2624, 684, 8999, 1125>>, <<7296, 9496, 42>>,
      <<5807, 5477, 368, 3372, 922>>, <<5808, 5477, 368, 3372, 922>>,
      <<1616, 955, 737, 6744, 1844>>,
      <<2864, 4205, 8579, 3651, 6584, 6158, 234, 9173, 705, 85>> }

WideVals == { Wide(n, m) : n \in BOOLEAN, m \in WideMags }

\* the programs [1102, l, r, 7, 4, 7, 99, 0] and [104, l, 99] at their start
InitWide ==
    /\ \E l \in WideVals, r \in WideVals :
            wide = [l |-> l, r |-> r, at |-> "Start", cell |-> Wide(FALSE, <<>>),
                    output |-> <<>>]
    /\ initial = <<>>
    /\ input_values = <<>>
    /\ RunIdle
    /\ TwinIdle
    /\ ChanIdle

\* the arm Multiply of [1102, l, r, 7, ...]: cell 7 := l * r
WideMultiply ==
    /\ wide.at = "Start"
    /\ in_byte(wide_mul(wide.l, wide.r))
    /\ wide' = [wide EXCEPT !.at = "Multiplied", !.cell = wide_mul(wide.l, wide.r)]
    /\ UNCHANGED <<arg_vars, run_vars, runs, chan_vars>>

\* `l * r` overflows Byte: a panic in a build with overflow checks, a
\* wrapped value otherwise
WideOverflow ==
    /\ wide.at = "Start"
    /\ ~in_byte(wide_mul(wide.l, wide.r))
    /\ \E outcome \in {"Panicked", "Wrapped"} : wide' = [wide EXCEPT !.at = outcome]
    /\ UNCHANGED <<arg_vars, run_vars, runs, chan_vars>>

\* the arm Output of [..., 4, 7, 99, 0]: push the value of cell 7
WideOutput ==
    /\ wide.at = "Multiplied"
    /\ wide' = [wide EXCEPT !.at = "Emitted", !.output = Append(@, wide.cell)]
    /\ UNCHANGED <<arg_vars, run_vars, runs, chan_vars>>

\* the arm Output of [104, l, 99]: push the literal
WideOutputLiteral ==
    /\ wide.at = "Start"
    /\ in_byte(wide.l)
    /\ wide' = [wide EXCEPT !.at = "Literal", !.output = Append(@, wide.l)]
    /\ UNCHANGED <<arg_vars, run_vars, runs, chan_vars>>

NextWide ==
    \/ WideMultiply
    \/ WideOverflow
    \/ WideOutput
    \/ WideOutputLiteral

SpecWide == InitWide /\ [][NextWide]_vars

----------------------------------------------------------------------------
(* Engines on channels: Computer::execute with a Receiver as its input and *)
(* a Sender as its output.  A channel is crossbeam's unbounded channel: a  *)
(* queue, the number of its live senders and of its live receivers.        *)

Channel(q, senders, receivers) ==
    [queue |-> q, senders |-> senders, receivers |-> receivers]

\* send putting the value in front of the queued ones
send_front(c, v) == [c EXCEPT !.queue = <<v>> \o @]

\* Sender::send when a receiver is alive
send(c, v) == [c EXCEPT !.queue = Append(@, v)]

\* Receiver::recv when a value is queued
recv(c) == [c EXCEPT !.queue = Tail(@)]

\* an engine thread: its Computer, the values its input has yielded, the
\* channel it receives from, the channel it sends to, and whether the
\* thread has finished and dropped both ends
Engine(p, rx, tx) ==
    [st |-> Fresh(p), inputs |-> <<>>, rx |-> rx, tx |-> tx, exited |-> FALSE]

next_name(e) == decode(e.st.program, e.st.pc).op.name

\* the iteration the engine makes with the input values it has got
run_engine(e) == [e EXCEPT !.st = iteration(e.st, e.inputs).st]

\* input_kind blocking on an empty channel whether or not it is closed
input_kind_blocking(c) == IF c.queue # <<>> THEN "Input" ELSE "Blocked"

\* `input.next()` on a Receiver: blocks while the channel is empty and a
\* sender is alive, None once it is empty and every sender is dropped
input_kind(c) ==
    IF c.queue # <<>> THEN "Input"
    ELSE IF c.senders = 0 THEN "InputClosed" ELSE "Blocked"

\* output_kind of a channel that holds one value at most
output_kind_rendezvous(e, c) ==
    IF c.queue # <<>> THEN "Blocked"
    ELSE IF c.receivers = 0 /\ run_engine(e).st.result # "Panicked"
    THEN "OutputClosed" ELSE "Output"

\* `self.send(val).expect("Unable to output to channel")`: send fails when
\* every receiver is dropped; the value is read before it is pushed
output_kind(e, c) ==
    IF c.receivers = 0 /\ run_engine(e).st.result # "Panicked"
    THEN "OutputClosed" ELSE "Output"

\* step_kind of a thread that ends only once what it sent has been received
step_kind_exit_waits(es, cs, i) ==
    IF es[i].exited THEN "Done"
    ELSE IF es[i].st.result # "Running"
    THEN (IF cs[es[i].tx].queue # <<>> THEN "Blocked" ELSE "Exit")
    ELSE IF next_name(es[i]) = "Input" THEN input_kind(cs[es[i].rx])
    ELSE IF next_name(es[i]) = "Output" THEN output_kind(es[i], cs[es[i].tx])
    ELSE "Run"

\* what the thread of engine i does next
step_kind(es, cs, i) ==
    IF es[i].exited THEN "Done"
    ELSE IF es[i].st.result # "Running" THEN "Exit"
    ELSE IF next_name(es[i]) = "Input" THEN input_kind(cs[es[i].rx])
    ELSE IF next_name(es[i]) = "Output" THEN output_kind(es[i], cs[es[i].tx])
    ELSE "Run"

\* the iteration of an Input that takes v from the channel
take_input(e, v) ==
    [e EXCEPT !.inputs = Append(@, v),
              !.st = iteration(e.st, Append(e.inputs, v)).st]

\* the channel after the iteration of an Output: the value pushed, unless
\* the read of the value panicked
push_sender(c, before, after) ==
    IF Len(after.st.output) > Len(before.st.output)
    THEN send(c, after.st.output[Len(after.st.output)])
    ELSE c

\* drop_ends keeping the Sender alive
drop_ends_keep_sender(cs, rx, tx) ==
    [c \in DOMAIN cs |->
        [cs[c] EXCEPT !.receivers = @ - (IF c = rx THEN 1 ELSE 0)]]

\* the return of the thread drops the Receiver and the Sender it was given
drop_ends(cs, rx, tx) ==
    [c \in DOMAIN cs |->
        [cs[c] EXCEPT !.receivers = @ - (IF c = rx THEN 1 ELSE 0),
                      !.senders = @ - (IF c = tx THEN 1 ELSE 0)]]

\* engine_step with a failed send returned as an Err after the instruction
engine_step_send_err(es, cs, i) ==
    CASE step_kind(es, cs, i) = "Input" ->
            [engines |-> [es EXCEPT ![i] = take_input(@, Head(cs[es[i].rx].queue))],
             chans |-> [cs EXCEPT ![es[i].rx] = recv(@)]]
      [] step_kind(es, cs, i) = "Output" ->
            [engines |-> [es EXCEPT ![i] = run_engine(@)],
             chans |-> [cs EXCEPT ![es[i].tx] = push_sender(@, es[i], run_engine(es[i]))]]
      [] step_kind(es, cs, i) = "OutputClosed" ->
            [engines |-> [es EXCEPT ![i].st =
                            Fail(run_engine(es[i]).st, "Unable to output to channel")],
             chans |-> cs]
      [] step_kind(es, cs, i) = "Exit" ->
            [engines |-> [es EXCEPT ![i].exited = TRUE],
             chans |-> drop_ends(cs, es[i].rx, es[i].tx)]
      [] step_kind(es, cs, i) \in {"Run", "InputClosed"} ->
            [engines |-> [es EXCEPT ![i] = run_engine(@)], chans |-> cs]
      [] OTHER -> [engines |-> es, chans |-> cs]

\* one step of the thread of engine i: [engines, chans]
engine_step(es, cs, i) ==
    CASE step_kind(es, cs, i) = "Input" ->
            [engines |-> [es EXCEPT ![i] = take_input(@, Head(cs[es[i].rx].queue))],
             chans |-> [cs EXCEPT ![es[i].rx] = recv(@)]]
      [] step_kind(es, cs, i) = "Output" ->
            [engines |-> [es EXCEPT ![i] = run_engine(@)],
             chans |-> [cs EXCEPT ![es[i].tx] = push_sender(@, es[i], run_engine(es[i]))]]
      [] step_kind(es, cs, i) = "OutputClosed" ->
            [engines |-> [es EXCEPT ![i].st = Panic(@, "Unable to output to channel")],
             chans |-> cs]
      [] step_kind(es, cs, i) = "Exit" ->
            [engines |-> [es EXCEPT ![i].exited = TRUE],
             chans |-> drop_ends(cs, es[i].rx, es[i].tx)]
      [] step_kind(es, cs, i) \in {"Run", "InputClosed"} ->
            [engines |-> [es EXCEPT ![i] = run_engine(@)], chans |-> cs]
      [] OTHER -> [engines |-> es, chans |-> cs]

host_vars == <<side, call, amain>>

Take(i) ==
    /\ engines' = engine_step(engines, chans, i).engines
    /\ chans' = engine_step(engines, chans, i).chans
    /\ UNCHANGED <<arg_vars, run_vars, runs, wide, host_vars>>

\* an iteration that neither receives nor sends (Halt and the failures of
\* decode included)
EngRun == \E i \in DOMAIN engines : step_kind(engines, chans, i) = "Run" /\ Take(i)

\* an Input takes the first value of the channel
EngInput == \E i \in DOMAIN engines : step_kind(engines, chans, i) = "Input" /\ Take(i)

\* an Input finds the channel empty and closed
EngInputClosed ==
    \E i \in DOMAIN engines : step_kind(engines, chans, i) = "InputClosed" /\ Take(i)

\* an Output sends its value
EngOutput == \E i \in DOMAIN engines : step_kind(engines, chans, i) = "Output" /\ Take(i)

\* an Output finds every receiver dropped
EngOutputClosed ==
    \E i \in DOMAIN engines : step_kind(engines, chans, i) = "OutputClosed" /\ Take(i)

\* the thread returns from Computer::execute, or unwinds
EngExit == \E i \in DOMAIN engines : step_kind(engines, chans, i) = "Exit" /\ Take(i)

\* a step of the thread of engine i, whatever it is
EngThread(i) ==
    /\ i \in DOMAIN engines
    /\ step_kind(engines, chans, i) \notin {"Blocked", "Done"}
    /\ Take(i)

EngNext ==
    \/ EngRun
    \/ EngInput
    \/ EngInputClosed
    \/ EngOutput
    \/ EngOutputClosed
    \/ EngExit

----------------------------------------------------------------------------
(* execute_side_by_side: the engine on one thread, f on another *)

MaxSends == 2

\* a sequential simulation of the ring is given 2^SeqTurns turns
SeqTurns == 9

\* Halt at once; two Outputs; one Input echoed; an echo loop that ends
\* when its input closes; an Output, then an unknown opcode; an Input
\* after an Output
SidePrograms ==
    { <<99>>,
      <<104, 1, 104, 2, 99>>,
      <<3, 0, 4, 0, 99>>,
      <<3, 7, 4, 7, 1105, 1, 0>>,
      <<104, 1, 0>>,
      <<104, 1, 3, 0, 99>> }

\* execute_side_by_side up to the two spawns: channel 0 is (tx2, rx2), the
\* input of the engine, channel 1 is (tx, rx), its output.  f either
\* drains the output until it is closed before it returns (setup_game), or
\* returns when it likes.
InitSide ==
    /\ initial \in SidePrograms
    /\ input_values = <<>>
    /\ engines = [i \in {0} |-> Engine(initial, 0, 1)]
    /\ chans = [c \in 0..1 |-> Channel(<<>>, 1, 1)]
    /\ \E d \in BOOLEAN :
        side = [at |-> "Running", drain |-> d, holds_tx |-> TRUE, sends |-> 0,
                received |-> <<>>, closed |-> FALSE, value |-> <<>>]
    /\ call = [at |-> "JoinComputer", program |-> <<>>, value |-> <<>>, error |-> ""]
    /\ amain = <<>>
    /\ RunIdle
    /\ TwinIdle
    /\ WideIdle

\* f sends a value to the engine, ignoring the error of a closed channel
SideSend ==
    /\ side.at = "Running"
    /\ side.holds_tx
    /\ side.sends < MaxSends
    /\ side' = [side EXCEPT !.sends = @ + 1]
    /\ chans' = [chans EXCEPT ![0] = IF @.receivers > 0 THEN send(@, side.sends + 1) ELSE @]
    /\ UNCHANGED <<arg_vars, run_vars, runs, wide, engines, call, amain>>

\* f drops its sender
SideDropTx ==
    /\ side.at = "Running"
    /\ side.holds_tx
    /\ side' = [side EXCEPT !.holds_tx = FALSE]
    /\ chans' = [chans EXCEPT ![0].senders = @ - 1]
    /\ UNCHANGED <<arg_vars, run_vars, runs, wide, engines, call, amain>>

\* f receives a value the engine has sent
SideRecv ==
    /\ side.at = "Running"
    /\ ~side.closed
    /\ chans[1].queue # <<>>
    /\ side' = [side EXCEPT !.received = Append(@, Head(chans[1].queue))]
    /\ chans' = [chans EXCEPT ![1] = recv(@)]
    /\ UNCHANGED <<arg_vars, run_vars, runs, wide, engines, call, amain>>

\* f finds the output of the engine empty and closed
SideRecvClosed ==
    /\ side.at = "Running"
    /\ ~side.closed
    /\ chans[1].queue = <<>>
    /\ chans[1].senders = 0
    /\ side' = [side EXCEPT !.closed = TRUE]
    /\ UNCHANGED <<arg_vars, run_vars, runs, wide, engines, chans, call, amain>>

\* f returns what it has received and drops both its ends
SideReturn ==
    /\ side.at = "Running"
    /\ side.drain => side.closed
    /\ side' = [side EXCEPT !.at = "Returned", !.holds_tx = FALSE,
                            !.value = side.received]
    /\ chans' = [chans EXCEPT ![0].senders = @ - (IF side.holds_tx THEN 1 ELSE 0),
                              ![1].receivers = @ - 1]
    /\ UNCHANGED <<arg_vars, run_vars, runs, wide, engines, call, amain>>

\* JoinComputer without the two expects
JoinComputer_unchecked ==
    /\ call.at = "JoinComputer"
    /\ engines[0].exited
    /\ call' = [call EXCEPT !.at = "JoinSide"]
    /\ UNCHANGED <<arg_vars, run_vars, runs, wide, engines, chans, side, amain>>

\* computer.join().expect("Computer panicked").expect("Execution failed")
JoinComputer ==
    /\ call.at = "JoinComputer"
    /\ engines[0].exited
    /\ call' = IF engines[0].st.result = "Halted"
               THEN [call EXCEPT !.at = "JoinSide"]
               ELSE [call EXCEPT !.at = "Unwinding",
                                 !.error = IF engines[0].st.result = "Panicked"
                                           THEN "Computer panicked"
                                           ELSE "Execution failed"]
    /\ UNCHANGED <<arg_vars, run_vars, runs, wide, engines, chans, side, amain>>

\* JoinSide without the swap
JoinSide_no_swap ==
    /\ call.at = "JoinSide"
    /\ side.at = "Returned"
    /\ call' = [call EXCEPT !.at = "Returned", !.value = side.value]
    /\ UNCHANGED <<arg_vars, run_vars, runs, wide, engines, chans, side, amain>>

\* side_program.join(), the end of the scope, and the swap that gives the
\* memory back to the caller's program
JoinSide ==
    /\ call.at = "JoinSide"
    /\ side.at = "Returned"
    /\ call' = [call EXCEPT !.at = "Returned", !.value = side.value,
                            !.program = engines[0].st.program]
    /\ UNCHANGED <<arg_vars, run_vars, runs, wide, engines, chans, side, amain>>

\* the scope joins the thread of f before the panic goes on to the caller
Unwind ==
    /\ call.at = "Unwinding"
    /\ side.at = "Returned"
    /\ call' = [call EXCEPT !.at = "Panicked"]
    /\ UNCHANGED <<arg_vars, run_vars, runs, wide, engines, chans, side, amain>>

NextSide ==
    \/ EngNext
    \/ SideSend
    \/ SideDropTx
    \/ SideRecv
    \/ SideRecvClosed
    \/ SideReturn
    \/ JoinComputer
    \/ JoinSide
    \/ Unwind

SpecSide == InitSide /\ [][NextSide]_vars

\* a draining f keeps receiving until the output is closed, then returns
DrainStep ==
    /\ side.drain
    /\ \/ SideRecv
       \/ SideRecvClosed
       \/ SideReturn

\* the steps of the calling thread
CallStep ==
    \/ JoinComputer
    \/ JoinSide
    \/ Unwind

\* every thread that can go on does go on: the engine, the calling thread,
\* and the loop of a draining f
SpecSideFair ==
    /\ SpecSide
    /\ WF_vars(EngNext)
    /\ WF_vars(CallStep)
    /\ WF_vars(DrainStep)

----------------------------------------------------------------------------
(* amplifier of day 7: a ring of engines, engine i receiving from channel i
   and sending to channel (i + 1) mod N *)

EXAMPLE_PROGRAM_1 == <<3, 15, 3, 16, 1002, 16, 10, 16, 1, 16, 15, 15, 4, 15, 99, 0, 0>>

FEEDBACK_PROGRAM_1 ==
    <<3, 26, 1001, 26, -4, 26, 3, 27, 1002, 27, 2, 27, 1, 27, 26, 27, 4, 27,
      1001, 28, -1, 28, 1005, 28, 6, 99, 0, 0, 5>>

\* the programs and phases amplifier is called with: the two of the tests,
\* and short programs that halt at once, emit before they receive, or
\* receive more than they are sent
AmpConfigs ==
    { [program |-> EXAMPLE_PROGRAM_1, phase |-> <<4, 3, 2, 1, 0>>],
      [program |-> FEEDBACK_PROGRAM_1, phase |-> <<9, 8, 7, 6, 5>>],
      [program |-> <<3, 0, 4, 0, 3, 1, 99>>, phase |-> <<9, 8, 7, 6, 5>>],
      [program |-> <<99>>, phase |-> <<1, 0>>],
      [program |-> <<3, 0, 3, 1, 4, 1, 4, 0, 99>>, phase |-> <<1, 2>>],
      [program |-> <<104, 1, 99>>, phase |-> <<1, 0>>],
      [program |-> <<3, 0, 3, 0, 99>>, phase |-> <<1, 0>>],
      [program |-> <<3, 0, 3, 0, 99>>, phase |-> <<1>>] }

\* load_phase done after the rotation of the senders
load_phase_rotated(phase, c) == <<phase[((c + 1) % Len(phase)) + 1]>>

\* "Load phase while tx/rx are still in sync": what channel c holds when
\* the threads are spawned
load_phase(phase, c) == <<phase[c + 1]>>

\* the ends of channel c: main holds a clone of the first Sender and of the
\* first Receiver
ring_channel(phase, c) ==
    Channel(load_phase(phase, c),
            IF c = 0 THEN 2 ELSE 1,
            IF c = 0 THEN 2 ELSE 1)

\* the threads after txs.rotate_left(1)
ring_engines(p, n) == [i \in 0..(n - 1) |-> Engine(p, i, (i + 1) % n)]

InitAmp ==
    /\ \E cfg \in AmpConfigs :
        /\ initial = cfg.program
        /\ amain = [at |-> "SendZero", phase |-> cfg.phase, joined |-> 0,
                    value |-> <<>>, error |-> ""]
        /\ engines = ring_engines(cfg.program, Len(cfg.phase))
        /\ chans = [c \in 0..(Len(cfg.phase) - 1) |-> ring_channel(cfg.phase, c)]
    /\ input_values = <<>>
    /\ side = <<>>
    /\ call = <<>>
    /\ RunIdle
    /\ TwinIdle
    /\ WideIdle

\* tx.send(0): main holds a Receiver of the channel, so the send succeeds
AmpSendZero ==
    /\ amain.at = "SendZero"
    /\ amain' = [amain EXCEPT !.at = "DropTx"]
    /\ chans' = [chans EXCEPT ![0] = send(@, 0)]
    /\ UNCHANGED <<arg_vars, run_vars, runs, wide, engines, side, call>>

\* drop(tx)
AmpDropTx ==
    /\ amain.at = "DropTx"
    /\ amain' = [amain EXCEPT !.at = "Join"]
    /\ chans' = [chans EXCEPT ![0].senders = @ - 1]
    /\ UNCHANGED <<arg_vars, run_vars, runs, wide, engines, side, call>>

\* t.join() of the next thread, which returned Ok
AmpJoin ==
    /\ amain.at = "Join"
    /\ engines[amain.joined].exited
    /\ engines[amain.joined].st.result = "Halted"
    /\ amain' = [amain EXCEPT !.joined = @ + 1,
                              !.at = IF amain.joined + 1 = Len(amain.phase)
                                     THEN "Recv" ELSE "Join"]
    /\ UNCHANGED <<arg_vars, run_vars, runs, wide, engines, chans, side, call>>

\* t.join() of a thread that returned Err: `?` returns it, dropping rx
AmpJoinErr ==
    /\ amain.at = "Join"
    /\ engines[amain.joined].exited
    /\ engines[amain.joined].st.result = "Failed"
    /\ amain' = [amain EXCEPT !.at = "Returned",
                              !.error = engines[amain.joined].st.error]
    /\ chans' = [chans EXCEPT ![0].receivers = @ - 1]
    /\ UNCHANGED <<arg_vars, run_vars, runs, wide, engines, side, call>>

\* t.join().expect("Thread panicked") of a thread that panicked
AmpJoinPanic ==
    /\ amain.at = "Join"
    /\ engines[amain.joined].exited
    /\ engines[amain.joined].st.result = "Panicked"
    /\ amain' = [amain EXCEPT !.at = "Panicked", !.error = "Thread panicked"]
    /\ chans' = [chans EXCEPT ![0].receivers = @ - 1]
    /\ UNCHANGED <<arg_vars, run_vars, runs, wide, engines, side, call>>

\* rx.recv() with a value queued: the first one
AmpRecv ==
    /\ amain.at = "Recv"
    /\ chans[0].queue # <<>>
    /\ amain' = [amain EXCEPT !.at = "Returned", !.value = <<Head(chans[0].queue)>>]
    /\ chans' = [chans EXCEPT ![0] = [recv(@) EXCEPT !.receivers = @ - 1]]
    /\ UNCHANGED <<arg_vars, run_vars, runs, wide, engines, side, call>>

\* rx.recv() on an empty channel without senders
AmpRecvErr ==
    /\ amain.at = "Recv"
    /\ chans[0].queue = <<>>
    /\ chans[0].senders = 0
    /\ amain' = [amain EXCEPT !.at = "Returned",
                              !.error = "receiving on an empty and disconnected channel"]
    /\ chans' = [chans EXCEPT ![0].receivers = @ - 1]
    /\ UNCHANGED <<arg_vars, run_vars, runs, wide, engines, side, call>>

NextAmp ==
    \/ EngNext
    \/ AmpSendZero
    \/ AmpDropTx
    \/ AmpJoin
    \/ AmpJoinErr
    \/ AmpJoinPanic
    \/ AmpRecv
    \/ AmpRecvErr

SpecAmp == InitAmp /\ [][NextAmp]_vars

\* the steps of the thread that called amplifier
AmpMainStep ==
    \/ AmpSendZero
    \/ AmpDropTx
    \/ AmpJoin
    \/ AmpJoinErr
    \/ AmpJoinPanic
    \/ AmpRecv
    \/ AmpRecvErr

\* every thread that can go on does go on: the engines and the caller
\* the short programs of AmpConfigs, in rings of one and two engines
RingConfigs == { cfg \in AmpConfigs : Len(cfg.phase) <= 2 }

InitRing ==
    /\ InitAmp
    /\ \E cfg \in RingConfigs : initial = cfg.program /\ amain.phase = cfg.phase

\* every thread that can go on does go on: the engines and the caller
SpecRingFair ==
    /\ InitRing
    /\ [][NextAmp]_vars
    /\ \A i \in 0..1 : WF_vars(EngThread(i))
    /\ WF_vars(AmpMainStep)

----------------------------------------------------------------------------
(* paint_common of day 11: the painter on one thread, the engine on
   another, main joining the engine and then the painter *)

BLACK == 0

WHITE == 1

TURN_LEFT == 0

\* Direction::turn
turn(d, v) ==
    CASE d = "Up" -> (IF v = TURN_LEFT THEN "Left" ELSE "Right")
      [] d = "Right" -> (IF v = TURN_LEFT THEN "Up" ELSE "Down")
      [] d = "Down" -> (IF v = TURN_LEFT THEN "Right" ELSE "Left")
      [] d = "Left" -> (IF v = TURN_LEFT THEN "Down" ELSE "Up")

\* Direction::move_forward_from
move_forward_from(d, coord) ==
    CASE d = "Up" -> <<coord[1], coord[2] + 1>>
      [] d = "Down" -> <<coord[1], coord[2] - 1>>
      [] d = "Left" -> <<coord[1] - 1, coord[2]>>
      [] d = "Right" -> <<coord[1] + 1, coord[2]>>

\* hull.get(&position).copied().unwrap_or(BLACK)
hull_get(hull, position) ==
    IF position \in DOMAIN hull THEN hull[position] ELSE BLACK

\* hull.insert(position, color)
hull_insert(hull, position, color) ==
    [q \in (DOMAIN hull) \cup {position} |->
        IF q = position THEN color ELSE hull[q]]

\* programs that halt after emitting (colour, turn) pairs: no pair, one
\* pair for one Input, two pairs, a pair without an Input, two pairs for
\* one Input; and a program that fails after one pair
PaintPrograms ==
    { <<99>>,
      <<3, 0, 104, 1, 104, 0, 99>>,
      <<3, 0, 104, 1, 104, 0, 3, 0, 4, 0, 104, 1, 99>>,
      <<104, 1, 104, 1, 99>>,
      <<3, 0, 104, 0, 104, 1, 104, 1, 104, 1, 99>>,
      <<3, 0, 104, 1, 104, 0, 0>> }

InitPaint ==
    /\ initial \in PaintPrograms
    /\ input_values = <<>>
    /\ engines = [i \in {0} |-> Engine(initial, 0, 1)]
    /\ chans = [c \in 0..1 |-> Channel(<<>>, 1, 1)]
    /\ \E initial_square \in {BLACK, WHITE} :
        side = [at |-> "Send", hull |-> [q \in {<<0, 0>>} |-> initial_square],
                position |-> <<0, 0>>, direction |-> "Up", half |-> <<>>,
                error |-> ""]
    /\ call = [at |-> "JoinComputer", error |-> ""]
    /\ amain = <<>>
    /\ RunIdle
    /\ TwinIdle
    /\ WideIdle

\* tx2.send(color) while the Receiver of the engine is alive
PaintSend ==
    /\ side.at = "Send"
    /\ chans[0].receivers > 0
    /\ side' = [side EXCEPT !.at = "Recv"]
    /\ chans' = [chans EXCEPT ![0] = send(@, hull_get(side.hull, side.position))]
    /\ UNCHANGED <<arg_vars, run_vars, runs, wide, engines, call, amain>>

\* tx2.send(color).expect("Computer has unexpectedly shut down") after the
\* engine has dropped its Receiver: the painter panics, dropping its ends
PaintSendFails ==
    /\ side.at = "Send"
    /\ chans[0].receivers = 0
    /\ side' = [side EXCEPT !.at = "Panicked",
                            !.error = "Computer has unexpectedly shut down"]
    /\ chans' = [chans EXCEPT ![0].senders = @ - 1, ![1].receivers = @ - 1]
    /\ UNCHANGED <<arg_vars, run_vars, runs, wide, engines, call, amain>>

\* the painter once the pair (color, turn_direction) is complete
painted(p, color, turn_direction) ==
    [p EXCEPT !.at = "Send",
              !.half = <<>>,
              !.hull = hull_insert(p.hull, p.position, color),
              !.direction = turn(p.direction, turn_direction),
              !.position = move_forward_from(turn(p.direction, turn_direction),
                                             p.position)]

\* rx.next() of the tuples: one more value of the pair is taken
PaintRecv ==
    /\ side.at = "Recv"
    /\ chans[1].queue # <<>>
    /\ side' = IF side.half = <<>>
               THEN [side EXCEPT !.half = <<Head(chans[1].queue)>>]
               ELSE painted(side, side.half[1], Head(chans[1].queue))
    /\ chans' = [chans EXCEPT ![1] = recv(@)]
    /\ UNCHANGED <<arg_vars, run_vars, runs, wide, engines, call, amain>>

\* rx.next() is None: the channel is empty and closed before the pair is
\* complete; the loop breaks and the thread returns the hull
PaintRecvClosed ==
    /\ side.at = "Recv"
    /\ chans[1].queue = <<>>
    /\ chans[1].senders = 0
    /\ side' = [side EXCEPT !.at = "Returned"]
    /\ chans' = [chans EXCEPT ![0].senders = @ - 1, ![1].receivers = @ - 1]
    /\ UNCHANGED <<arg_vars, run_vars, runs, wide, engines, call, amain>>

\* computer.join().expect("Computer panicked").expect("Execution failed")
PaintJoinComputer ==
    /\ call.at = "JoinComputer"
    /\ engines[0].exited
    /\ call' = IF engines[0].st.result = "Halted"
               THEN [call EXCEPT !.at = "JoinPainter"]
               ELSE [call EXCEPT !.at = "Panicked",
                                 !.error = IF engines[0].st.result = "Panicked"
                                           THEN "Computer panicked"
                                           ELSE "Execution failed"]
    /\ UNCHANGED <<arg_vars, run_vars, runs, wide, engines, chans, side, amain>>

\* painter.join().expect("Painter panicked")
PaintJoinPainter ==
    /\ call.at = "JoinPainter"
    /\ side.at \in {"Returned", "Panicked"}
    /\ call' = IF side.at = "Returned"
               THEN [call EXCEPT !.at = "Returned"]
               ELSE [call EXCEPT !.at = "Panicked", !.error = "Painter panicked"]
    /\ UNCHANGED <<arg_vars, run_vars, runs, wide, engines, chans, side, amain>>

\* the engine never finds a channel closed here: the painter keeps both of
\* its ends until the engine thread has ended
NextPaint ==
    \/ EngRun
    \/ EngInput
    \/ EngOutput
    \/ EngExit
    \/ PaintSend
    \/ PaintSendFails
    \/ PaintRecv
    \/ PaintRecvClosed
    \/ PaintJoinComputer
    \/ PaintJoinPainter

SpecPaint == InitPaint /\ [][NextPaint]_vars

----------------------------------------------------------------------------
(* The instruction at pc, read off the cells of memory *)

\* memory seen as zero beyond its end
ZMem(mem, a) == IF a < Len(mem) THEN mem[a + 1] ELSE 0

\* the opcode of the instruction cell (pc is below the length)
RawOpcode == Rem(Cell(program, pc), 100)

\* the decimal digit of the instruction cell at position 10^(k+1)
ModeDigit(k) == (Cell(program, pc) \div Pow10(k + 1)) % 10

\* the k-th cell after the instruction cell
RawOperand(k) == Cell(program, pc + k)

\* the address a Position or Relative parameter k designates
OperandAddr(k) == (IF ModeDigit(k) = 2 THEN relative_base ELSE 0) + RawOperand(k)

\* the value parameter k stands for
OperandValue(k) ==
    IF ModeDigit(k) = 1 THEN RawOperand(k) ELSE ZMem(program, OperandAddr(k))

\* program' is program with value stored at address a, seen zero-extended
Stored(a, value) ==
    \A i \in 0..(MaxMemory + 1) :
        ZMem(program', i) = IF i = a THEN value ELSE ZMem(program, i)

\* the step is an iteration that decoded an instruction and executed it
\* without error or panic
Executed == result = "Running" /\ result' \in {"Running", "Halted"}

----------------------------------------------------------------------------
(* C1 *)

C1_Step ==
    (Executed /\ RawOpcode \in {1, 2})
    => Stored(OperandAddr(3),
              IF RawOpcode = 1 THEN OperandValue(1) + OperandValue(2)
              ELSE OperandValue(1) * OperandValue(2))

\* C1: every executed Add (Multiply) reads both operands from the memory as
\* it is before the step and stores their sum (product) at the address its
\* third parameter designates, in every mode combination.
C1_AddMultiply == [][C1_Step]_vars

\* the two examples: both test programs halt on their documented memory,
\* and the last Add of the second wrote through a Position parameter
C1_Witness ==
    /\ result = "Halted"
    /\ initial = <<1, 1, 1, 4, 99, 5, 6, 0, 99>>
    /\ program = <<30, 1, 1, 4, 2, 5, 6, 0, 99>>

----------------------------------------------------------------------------
(* C2 *)

ModeName(digit) ==
    CASE digit = 0 -> "Position"
      [] digit = 1 -> "Immediate"
      [] digit = 2 -> "Relative"
      [] OTHER -> "Unknown"

OpcodeOf(name) ==
    CASE name = "Add" -> 1
      [] name = "Multiply" -> 2
      [] name = "Input" -> 3
      [] name = "Output" -> 4
      [] name = "JumpIfTrue" -> 5
      [] name = "JumpIfFalse" -> 6
      [] name = "LessThan" -> 7
      [] name = "Equals" -> 8
      [] name = "AdjustRelativeBase" -> 9
      [] name = "Halt" -> 99

\* the cell at pc is an instruction of the table with every parameter present,
\* in a mode 0, 1 or 2, and no negative Position address
Decodable ==
    /\ pc < Len(program)
    /\ Cell(program, pc) >= 0
    /\ RawOpcode \in (1..9) \cup {99}
    /\ \A k \in 1..Arity(RawOpcode) :
            /\ pc + k < Len(program)
            /\ ModeDigit(k) \in 0..2
            /\ ModeDigit(k) = 0 => RawOperand(k) >= 0

C2_Step ==
    result = "Running"
    => /\ Decodable => op'.name # "None"
       /\ op'.name # "None"
            => /\ OpcodeOf(op'.name) = Cell(program, pc) % 100
               /\ Len(op'.p) = Arity(Cell(program, pc) % 100)
               /\ \A k \in 1..Len(op'.p) :
                    /\ op'.p[k].mode = ModeName(ModeDigit(k))
                    /\ op'.p[k].v = RawOperand(k)

\* C2: every decoded Operation has the opcode (cell at pc) mod 100, and its
\* k-th parameter has the mode named by the digit of that cell at 10^(k+1)
\* (a digit the cell does not have is 0, Position) and the k-th cell after it.
C2_Decode == [][C2_Step]_vars

\* 1002 was decoded as Multiply(Position(4), Immediate(3), Position(4))
C2_Witness ==
    /\ initial = <<1002, 4, 3, 4, 33>>
    /\ op = [name |-> "Multiply", p |-> <<Position(4), Immediate(3), Position(4)>>]

----------------------------------------------------------------------------
(* C3 *)

C3_Step ==
    /\ (Executed /\ RawOpcode = 3)
        => /\ input_pos' = input_pos + 1
           /\ Stored(OperandAddr(1), input_values[input_pos + 1])
           /\ output' = output
    /\ (Executed /\ RawOpcode = 4)
        => /\ output' = Append(output, OperandValue(1))
           /\ input_pos' = input_pos
    /\ (Executed /\ RawOpcode \notin {3, 4})
        => input_pos' = input_pos /\ output' = output
    /\ input_values' = input_values

\* C3: every executed Input stores the next unread element of the inputs and
\* consumes exactly it (so the k-th Input stores the k-th element), every
\* executed Output appends exactly the value of its operand to the output,
\* and no other instruction consumes or produces a value.
C3_InputOutput == [][C3_Step]_vars

\* EXAMPLE_PROGRAM_1 halted after two Inputs and one Output: 10 * 8 + 7
C3_Witness ==
    /\ result = "Halted"
    /\ Len(initial) = 17
    /\ input_values = <<7, 8>>
    /\ input_pos = 2
    /\ output = <<87>>

----------------------------------------------------------------------------
(* C4 *)

C4_Step ==
    /\ (Executed /\ RawOpcode = 7)
        => Stored(OperandAddr(3), IF OperandValue(1) < OperandValue(2) THEN 1 ELSE 0)
    /\ (Executed /\ RawOpcode = 8)
        => Stored(OperandAddr(3), IF OperandValue(1) = OperandValue(2) THEN 1 ELSE 0)

\* the run of the equals-8 program on a non-empty input ends halted, with
\* output [1] for a first input of 8 and [0] for any other
C4_Example ==
    (/\ initial = <<3, 9, 8, 9, 10, 9, 4, 9, 99, -1, 8>>
     /\ Len(input_values) >= 1
     /\ result # "Running")
    => /\ result = "Halted"
       /\ output = <<IF input_values[1] = 8 THEN 1 ELSE 0>>

\* C4: every executed LessThan stores 1 when its first operand is below its
\* second and 0 otherwise, every executed Equals stores 1 when they are equal
\* and 0 otherwise, in every mode combination; the equals-8 program outputs
\* [1] for input 8 and [0] for every other input.
C4_Compare == [][C4_Step]_vars /\ []C4_Example

\* the immediate-mode less-than program answered 1 for the input 7
C4_Witness ==
    /\ result = "Halted"
    /\ initial = <<3, 3, 1107, -1, 8, 3, 4, 3, 99>>
    /\ input_values = <<7>>
    /\ output = <<1>>

----------------------------------------------------------------------------
(* C5 *)

C5_Step ==
    /\ (Executed /\ RawOpcode = 5)
        => /\ pc' = IF OperandValue(1) # 0 THEN OperandValue(2) ELSE pc + 3
           /\ program' = program
           /\ relative_base' = relative_base
    /\ (Executed /\ RawOpcode = 6)
        => /\ pc' = IF OperandValue(1) = 0 THEN OperandValue(2) ELSE pc + 3
           /\ program' = program
           /\ relative_base' = relative_base

\* C5: an executed JumpIfTrue (JumpIfFalse) sets pc to the value of its target
\* operand when its condition is non-zero (zero) and to pc + 3 otherwise, and
\* changes neither memory nor the relative base.
C5_Jumps == [][C5_Step]_vars

\* the immediate-mode jump test took its JumpIfTrue to 9 on the input 100
C5_Witness ==
    /\ initial = <<3, 3, 1105, -1, 9, 1101, 0, 0, 12, 4, 12, 99, 1>>
    /\ input_values = <<100>>
    /\ op.name = "JumpIfTrue"
    /\ pc = 9

----------------------------------------------------------------------------
(* C6 *)

C6_Step ==
    (Executed /\ RawOpcode \notin {5, 6})
    => pc' = pc + (CASE RawOpcode \in {1, 2, 7, 8} -> 4
                     [] RawOpcode \in {3, 4, 9} -> 2
                     [] RawOpcode = 99 -> 1)

\* C6: every executed instruction other than a jump leaves pc at its value
\* before the step plus the width of the instruction as it stood in memory
\* before the step: 4 for Add, Multiply, LessThan, Equals, 2 for Input,
\* Output, AdjustRelativeBase, 1 for Halt.
C6_Width == [][C6_Step]_vars

\* an Input (width 2) overwrote its own cell with 7, a LessThan (width 4)
C6_Witness ==
    /\ initial = <<3, 0, 99, 5, 6>>
    /\ op.name = "Input"
    /\ program[1] = 7
    /\ pc = 2

----------------------------------------------------------------------------
(* C7 *)

C7_Step ==
    /\ (Executed /\ RawOpcode = 9)
        => relative_base' = relative_base + OperandValue(1)
    /\ (Executed /\ RawOpcode = 3 /\ ModeDigit(1) = 2)
        => ZMem(program', relative_base + RawOperand(1)) = input_values[input_pos + 1]
    /\ (Executed /\ RawOpcode = 4 /\ ModeDigit(1) = 2)
        => output' = Append(output, ZMem(program, relative_base + RawOperand(1)))

\* a round-trip program given an input halts having emitted exactly that input
C7_RoundTrip ==
    (initial \in RelativePrograms /\ Len(input_values) >= 1 /\ result # "Running")
    => result = "Halted" /\ output = <<input_values[1]>>

\* C7: an executed AdjustRelativeBase adds the value of its operand to the
\* relative base, a Relative parameter reads and writes the cell at relative
\* base plus offset, and a value written through a Relative parameter beyond
\* the initial program is read back unchanged through a Relative parameter
\* that resolves to the same address.
C7_RelativeBase == [][C7_Step]_vars /\ []C7_RoundTrip

\* a round trip through cell FarAddr + 1, beyond the initial program, after
\* the base was moved twice
C7_Witness ==
    /\ initial = <<109, FarAddr, 203, 1, 109, -1, 204, 2, 99>>
    /\ result = "Halted"
    /\ relative_base = FarAddr - 1
    /\ Len(program) = FarAddr + 2
    /\ input_values = <<42>>
    /\ output = <<42>>

----------------------------------------------------------------------------
(* C8 *)

\* the instruction at pc writes through its parameter OutIndex
Writes == RawOpcode \in {1, 2, 3, 7, 8}

OutIndex == IF RawOpcode = 3 THEN 1 ELSE 3

\* the value the instruction at pc stores
OutValue ==
    CASE RawOpcode = 1 -> OperandValue(1) + OperandValue(2)
      [] RawOpcode = 2 -> OperandValue(1) * OperandValue(2)
      [] RawOpcode = 3 -> input_values[input_pos + 1]
      [] RawOpcode = 7 -> IF OperandValue(1) < OperandValue(2) THEN 1 ELSE 0
      [] RawOpcode = 8 -> IF OperandValue(1) = OperandValue(2) THEN 1 ELSE 0

\* the instruction at pc decodes, its reads resolve to addresses >= 0, an
\* input is there if it needs one, and it writes through a Position or
\* Relative parameter at an address at or beyond the end of memory
WritesBeyond ==
    /\ result = "Running"
    /\ Decodable
    /\ Writes
    /\ ModeDigit(OutIndex) \in {0, 2}
    /\ OperandAddr(OutIndex) >= Len(program)
    /\ RawOpcode = 3 => input_pos < Len(input_values)
    /\ RawOpcode # 3 => \A k \in 1..2 : ModeDigit(k) = 2 => OperandAddr(k) >= 0

C8_Step ==
    WritesBeyond
    => /\ result' = "Running"
       /\ Len(program') = OperandAddr(OutIndex) + 1
       /\ program'[OperandAddr(OutIndex) + 1] = OutValue
       /\ \A i \in 1..Len(program) : program'[i] = program[i]
       /\ \A i \in (Len(program) + 1)..OperandAddr(OutIndex) : program'[i] = 0

\* C8: a write through a Position or Relative parameter at an address a at
\* or beyond the end of memory succeeds, extends memory to length a + 1,
\* stores the value at a, fills the other new cells with 0 and leaves the
\* old cells unchanged.
C8_WriteExtends == [][C8_Step]_vars

\* an Input stored 7 at FarAddr, beyond the five cells of the program
C8_Witness ==
    /\ initial = <<3, FarAddr, 99, 5, 6>>
    /\ op.name = "Input"
    /\ Len(program) = FarAddr + 1
    /\ program[FarAddr + 1] = 7
    /\ \A i \in 6..FarAddr : program[i] = 0

----------------------------------------------------------------------------
(* C9 *)

\* parameter k of the instruction at pc is read through a Position or
\* Relative parameter at an address at or beyond the end of memory
ReadsBeyond(k) ==
    /\ ModeDigit(k) \in {0, 2}
    /\ OperandAddr(k) >= Len(program)

C9_ReadExtends_Step ==
    (Executed /\ RawOpcode = 4 /\ ReadsBeyond(1))
    => /\ output' = Append(output, 0)
       /\ Len(program') = OperandAddr(1) + 1

\* C9 (as stated): an Output that reads at an address a at or beyond the end
\* of memory emits 0 and leaves memory extended to length a + 1.
C9_ReadExtends == [][C9_ReadExtends_Step]_vars

C9_Step ==
    /\ (Executed /\ RawOpcode = 4 /\ ReadsBeyond(1))
        => output' = Append(output, 0) /\ program' = program
    /\ (Executed /\ RawOpcode = 9 /\ ReadsBeyond(1))
        => relative_base' = relative_base /\ program' = program
    /\ (Executed /\ RawOpcode = 5 /\ ReadsBeyond(1))
        => pc' = pc + 3 /\ program' = program
    /\ (Executed /\ RawOpcode = 6 /\ ReadsBeyond(1))
        => pc' = OperandValue(2) /\ program' = program
    /\ (Executed /\ RawOpcode \in {1, 2, 7, 8} /\ ReadsBeyond(1) /\ ReadsBeyond(2))
        => /\ ZMem(program', OperandAddr(3)) =
                (CASE RawOpcode \in {1, 2} -> 0
                   [] RawOpcode = 7 -> 0
                   [] RawOpcode = 8 -> 1)
    /\ Executed
        => Len(program') = IF Writes /\ OperandAddr(OutIndex) >= Len(program)
                           THEN OperandAddr(OutIndex) + 1 ELSE Len(program)

\* C9 (amended): a read through a Position or Relative parameter at an
\* address at or beyond the end of memory yields 0 and does not extend
\* memory: the length after the instruction is what its write, if any, makes
\* it.
C9_ReadBeyond == [][C9_Step]_vars

\* an Output read cell FarAddr of a five-cell program: 0 emitted, and the
\* memory is still the five cells
C9_Witness ==
    /\ initial = <<4, FarAddr, 99, 5, 6>>
    /\ op.name = "Output"
    /\ output = <<0>>
    /\ program = initial

----------------------------------------------------------------------------
(* C10 *)

\* C10: the engine never aborts with an out-of-bounds failure on fetching the
\* instruction at a pc at or beyond the end of memory.
C10_FetchBeyond ==
    ~(result = "Panicked" /\ error = "index out of bounds" /\ pc >= Len(program))

----------------------------------------------------------------------------
(* C11 *)

C11_Step ==
    (result = "Running" /\ result' = "Halted")
    => /\ pc < Len(program)
       /\ Cell(program, pc) >= 0
       /\ RawOpcode = 99
       /\ op'.name = "Halt"
       /\ pc' = pc + 1
       /\ error' = ""

C11_Halted ==
    result = "Halted"
    => /\ op.name = "Halt"
       /\ pc >= 1
       /\ Cell(program, pc - 1) % 100 = 99
       /\ error = ""

\* C11: a run becomes Halted (Computer::execute returns Ok) only by the
\* step that decodes opcode 99 at the current pc; a Halted computer has just
\* executed a Halt, and exhausted input, the end of memory or an error
\* never end a run with Ok.
C11_HaltOnly == [][C11_Step]_vars /\ []C11_Halted

\* the run of [1,0,0,0,99] returned Ok right after the 99 in cell 4
C11_Witness ==
    /\ initial = <<1, 0, 0, 0, 99>>
    /\ result = "Halted"
    /\ program = <<2, 0, 0, 0, 99>>
    /\ pc = 5

----------------------------------------------------------------------------
(* C12 *)

\* the Computer has executed a Halt: it is Halted, or Computer::execute has
\* been invoked again, which happens on a Halted computer only
HasHalted == result = "Halted" \/ calls > 1

C12_Step ==
    HasHalted => /\ program' = program
                 /\ pc' = pc
                 /\ relative_base' = relative_base

\* C12: once a Computer has executed Halt, its memory, pc and relative base
\* never change again, also when Computer::execute is invoked again on it.
C12_HaltedTerminal == [][C12_Step]_vars

----------------------------------------------------------------------------
(* C13 *)

\* the cell at pc does not hold an opcode of the table
UnknownOpcode ==
    /\ pc < Len(program)
    /\ \/ Cell(program, pc) < 0
       \/ Cell(program, pc) % 100 \notin (1..9) \cup {99}

C13_Step ==
    (result = "Running" /\ UnknownOpcode)
    => /\ result' = "Failed"
       /\ error' = "Unknown opcode"
       /\ input_pos' = input_pos
       /\ output' = output
       /\ program' = program
       /\ pc' = pc
       /\ relative_base' = relative_base

\* C13: when the cell at pc, mod 100, is not an opcode of the table (0 and
\* every negative cell included), the step returns a decode error, consumes
\* no input, emits nothing and leaves memory, pc and relative base as they
\* were.
C13_UnknownOpcode == [][C13_Step]_vars

\* a taken jump reached a cell holding -1 and the run failed there
C13_Witness ==
    /\ initial = <<1105, -1, 1, 99, 5, 6>>
    /\ op.name = "None"
    /\ result = "Failed"
    /\ error = "Unknown opcode"
    /\ pc = 1
    /\ Cell(program, pc) = -1
    /\ program = initial

----------------------------------------------------------------------------
(* C14 *)

C14_Step ==
    (result = "Running" /\ Decodable /\ RawOpcode = 3
        /\ input_pos >= Len(input_values))
    => /\ result' = "Failed"
       /\ error' = "No more input is available"
       /\ program' = program
       /\ pc' = pc
       /\ relative_base' = relative_base
       /\ input_pos' = input_pos
       /\ output' = output

\* C14: an Input instruction executed when the input has no further value
\* returns the input-exhausted error; memory, pc (still at the Input
\* instruction) and relative base are as before the step.
C14_InputExhausted == [][C14_Step]_vars

\* the second Input of the day-07 example found the input exhausted: the
\* run failed at pc 2 with the first input still stored in cell 15
C14_Witness ==
    /\ initial = <<3, 15, 3, 16, 1002, 16, 10, 16, 1, 16, 15, 15, 4, 15, 99, 0, 0>>
    /\ input_values = <<7>>
    /\ result = "Failed"
    /\ error = "No more input is available"
    /\ pc = 2
    /\ input_pos = 1
    /\ Cell(program, 15) = 7

----------------------------------------------------------------------------
(* C15 *)

\* the instruction at pc decodes, its reads resolve to addresses >= 0, an
\* input is there if it needs one, and its out parameter is Immediate
WritesImmediate ==
    /\ result = "Running"
    /\ Decodable
    /\ Writes
    /\ ModeDigit(OutIndex) = 1
    /\ RawOpcode = 3 => input_pos < Len(input_values)
    /\ RawOpcode # 3 => \A k \in 1..2 : ModeDigit(k) = 2 => OperandAddr(k) >= 0

C15_Err_Step ==
    WritesImmediate => /\ result' = "Failed"
                       /\ program' = program

\* C15 (as stated): a write through an Immediate parameter stops the run
\* with no memory cell changed, and execute returns the error to its caller
\* as its error result.
C15_ImmediateWriteErr == [][C15_Err_Step]_vars

C15_Step ==
    WritesImmediate
    => /\ result' = "Panicked"
       /\ error' = "Must not write to immediate parameter"
       /\ program' = program
       /\ pc' = pc
       /\ relative_base' = relative_base
       /\ output' = output
       /\ input_pos' = input_pos + (IF RawOpcode = 3 THEN 1 ELSE 0)

\* C15 (amended): a write through an Immediate parameter panics: the run
\* stops at once with no memory cell, pc or relative base changed (an Input
\* has taken its value from the input), and execute returns no error value.
C15_ImmediateWritePanics == [][C15_Step]_vars

\* an Input with an Immediate out parameter took the input value and
\* panicked, the memory as it was
C15_Witness ==
    /\ initial = <<103, 0, 99, 5, 6>>
    /\ input_values = <<7>>
    /\ result = "Panicked"
    /\ error = "Must not write to immediate parameter"
    /\ input_pos = 1
    /\ pc = 0
    /\ program = initial

----------------------------------------------------------------------------
(* C16 *)

\* C16: after a run of execute / execute_with_output has stopped on a
\* failure of any kind (an error returned or a panic), the caller's program
\* holds the memory of the Computer as it was at the failing step.
C16_MemoryInspectable ==
    (calls = 1 /\ result \in {"Failed", "Panicked"}) => callers_program = program

\* a run that stored 2 in cell 0 and then panicked on a write through an
\* Immediate parameter: the caller's program is left empty
C16_Lost ==
    /\ initial = <<1101, 1, 1, 0, 11101, 0, 0, 0>>
    /\ result = "Panicked"
    /\ program = <<2, 1, 1, 0, 11101, 0, 0, 0>>
    /\ callers_program = <<>>

----------------------------------------------------------------------------
(* C17 *)

\* the cell at pc holds an opcode of the table and parameter k of the
\* instruction is in Position mode and holds a negative value
NegativePosition(k) ==
    /\ pc < Len(program)
    /\ Cell(program, pc) >= 0
    /\ RawOpcode \in 1..9
    /\ k \in 1..Arity(RawOpcode)
    /\ pc + k < Len(program)
    /\ ModeDigit(k) = 0
    /\ RawOperand(k) < 0

\* every parameter of the instruction is in memory and has a mode digit 0..2
ParamsPresent ==
    \A k \in 1..Arity(RawOpcode) : pc + k < Len(program) /\ ModeDigit(k) \in 0..2

C17_Step ==
    (result = "Running" /\ \E k \in 1..3 : NegativePosition(k))
    => /\ result' = "Failed"
       /\ ParamsPresent => error' = "TryFromIntError"
       /\ op'.name = "None"
       /\ program' = program
       /\ pc' = pc
       /\ relative_base' = relative_base
       /\ input_pos' = input_pos
       /\ output' = output

\* C17: an instruction one of whose parameters is in Position mode and holds
\* a negative value is not decoded: the step returns a decode error, for a
\* read operand as for a write target, with memory, pc and relative base
\* unchanged.
C17_NegativePosition == [][C17_Step]_vars

\* a JumpIfTrue that would not have jumped failed to decode on its negative
\* Position target, after the relative base had moved
C17_Witness ==
    /\ initial = <<109, FarAddr, 105, 0, -1, 99, 5, 6>>
    /\ result = "Failed"
    /\ error = "TryFromIntError"
    /\ pc = 2
    /\ relative_base = FarAddr
    /\ program = initial

----------------------------------------------------------------------------
(* C18 *)

\* parameter k of the instruction at pc is in Relative mode and its
\* absolute address relative_base + offset is negative
NegativeRelative(k) ==
    /\ k \in 1..Arity(RawOpcode)
    /\ ModeDigit(k) = 2
    /\ relative_base + RawOperand(k) < 0

\* the jump at pc is taken (its first parameter is not at a negative
\* relative address)
JumpTaken == (OperandValue(1) # 0) = (RawOpcode = 5)

\* the instruction at pc decodes and comes to read or write a parameter at a
\* negative relative address: an Input when a value is there, a jump for its
\* condition, or for its target when it is taken
NegativeRelativeAccess ==
    /\ result = "Running"
    /\ Decodable
    /\ CASE RawOpcode \in {1, 2, 7, 8} -> \E k \in 1..3 : NegativeRelative(k)
         [] RawOpcode = 3 -> NegativeRelative(1) /\ input_pos < Len(input_values)
         [] RawOpcode \in {4, 9} -> NegativeRelative(1)
         [] RawOpcode \in {5, 6} ->
                IF NegativeRelative(1) THEN TRUE
                ELSE NegativeRelative(2) /\ JumpTaken
         [] OTHER -> FALSE

\* a jump that is not taken, with a target at a negative relative address
UnusedNegativeTarget ==
    /\ result = "Running"
    /\ Decodable
    /\ RawOpcode \in {5, 6}
    /\ ~NegativeRelative(1)
    /\ NegativeRelative(2)
    /\ ~JumpTaken

C18_Err_Step == NegativeRelativeAccess => result' = "Failed"

\* C18 (as stated): an instruction with a Relative parameter at a negative
\* absolute address fails with an error returned to the caller as an error
\* value.
C18_NegativeRelativeErr == [][C18_Err_Step]_vars

C18_Step ==
    /\ NegativeRelativeAccess
        => /\ op'.name = OpName(RawOpcode)
           /\ result' = "Panicked"
           /\ error' = "Cannot convert absolute address"
           /\ program' = program
           /\ pc' = pc
           /\ relative_base' = relative_base
           /\ output' = output
    /\ UnusedNegativeTarget
        => /\ result' = "Running"
           /\ pc' = pc + 3

\* C18 (amended): an instruction with a Relative parameter at a negative
\* absolute address decodes; it panics when it reads or writes that
\* parameter, with memory, pc and relative base unchanged and no error value
\* returned, and a jump that is not taken goes on past such a target.
C18_NegativeRelativePanics == [][C18_Step]_vars

\* an Output through Relative(-1) with relative base 0 was decoded and
\* panicked
C18_Witness ==
    /\ initial = <<204, -1, 99, 5, 6>>
    /\ op.name = "Output"
    /\ result = "Panicked"
    /\ error = "Cannot convert absolute address"
    /\ pc = 0
    /\ output = <<>>

\* a JumpIfTrue not taken went on past its target Relative(-1)
C18_Unused ==
    /\ initial = <<2105, 0, -1, 99, 5, 6>>
    /\ op.name = "JumpIfTrue"
    /\ result = "Running"
    /\ pc = 3

----------------------------------------------------------------------------
(* C19 *)

\* a cell of the instruction at pc is not what the initial program held
\* there
Rewritten ==
    \E k \in 0..Arity(RawOpcode) :
        /\ pc + k < Len(program)
        /\ ZMem(initial, pc + k) # Cell(program, pc + k)

C19_Step ==
    (result = "Running" /\ pc < Len(program))
    => /\ Decodable
            => /\ op'.name = OpName(RawOpcode)
               /\ Len(op'.p) = Arity(RawOpcode)
               /\ \A k \in 1..Arity(RawOpcode) :
                    /\ op'.p[k].mode = ModeName(ModeDigit(k))
                    /\ op'.p[k].v = RawOperand(k)
       /\ UnknownOpcode => op'.name = "None" /\ result' = "Failed"
       /\ (Rewritten /\ RawOpcode = 99 /\ Cell(program, pc) >= 0)
            => result' = "Halted"

C19_Examples ==
    /\ (initial = <<1002, 4, 3, 4, 33>> /\ result # "Running")
        => /\ result = "Halted"
           /\ program = <<1002, 4, 3, 4, 99>>
           /\ pc = 5
    /\ (initial = <<1, 1, 1, 4, 99, 5, 6, 0, 99>> /\ result # "Running")
        => /\ result = "Halted"
           /\ program = <<30, 1, 1, 4, 2, 5, 6, 0, 99>>

\* C19: every step decodes the instruction from the cells memory holds at
\* pc at that step, so an instruction cell overwritten by an earlier
\* instruction is executed with its new value: [1002,4,3,4,33] stores 99 in
\* cell 4 and halts on it.
C19_DecodesCurrent == [][C19_Step]_vars /\ []C19_Examples

\* [1002,4,3,4,33] halted on the 99 it had stored in cell 4
C19_Witness ==
    /\ initial = <<1002, 4, 3, 4, 33>>
    /\ op.name = "Halt"
    /\ result = "Halted"
    /\ Cell(program, 4) = 99
    /\ pc = 5

----------------------------------------------------------------------------
(* C20 *)

\* C20: the run of the quine program with no input emits the cells of its
\* initial memory in order, and when it stops it has halted with an output
\* equal to the initial memory.
C20_Quine ==
    (initial = Quine /\ input_values = <<>>)
    => /\ Len(output) <= Len(initial)
       /\ \A i \in 1..Len(output) : output[i] = initial[i]
       /\ result \in {"Running", "Halted"}
       /\ result = "Halted" => output = initial

\* the quine halted after its sixteen outputs, its counter in cell 100
C20_Witness ==
    /\ initial = Quine
    /\ input_values = <<>>
    /\ result = "Halted"
    /\ Len(output) = 16
    /\ output = Quine
    /\ Cell(program, 100) = 16
    /\ calls = 1

----------------------------------------------------------------------------
(* C21 *)

\* what a run has made of its arguments: memory, registers, input taken,
\* output and outcome
RunState(r) == runs[r].st

Finished(r) == runs[r].st.result # "Running"

----------------------------------------------------------------------------
(* C22 *)

\* the value is within the signed 64-bit range
in_i64(x) == less_mag(x.mag, Limit64) \/ (x.neg /\ x.mag = Limit64)

\* the magnitude modulo m, for m below Limb
RECURSIVE residue(_, _)
residue(a, m) == IF a = <<>> THEN 0 ELSE (Head(a) + Limb * residue(Tail(a), m)) % m

\* ten primes whose product exceeds 2^128: a magnitude below 2^127 is
\* determined by its residues
Moduli == {9973, 9967, 9949, 9941, 9931, 9929, 9923, 9907, 9901, 9887}

\* p is the mathematical product of l and r
IsProduct(p, l, r) ==
    /\ less_mag(p.mag, ByteLimit) \/ p.mag = ByteLimit
    /\ \A m \in Moduli :
            residue(p.mag, m) = (residue(l.mag, m) * residue(r.mag, m)) % m
    /\ p.neg = (l.neg # r.neg /\ l.mag # <<>> /\ r.mag # <<>>)

\* the number of decimal digits of a magnitude
Digits(a) ==
    IF a = <<>> THEN 1
    ELSE 4 * (Len(a) - 1) +
         (CASE a[Len(a)] < 10 -> 1 [] a[Len(a)] < 100 -> 2
            [] a[Len(a)] < 1000 -> 3 [] OTHER -> 4)

Factor == Wide(FALSE, <<5192, 3491>>)

\* C22: for operands within the signed 64-bit range Multiply does not
\* overflow and stores the mathematical product, which Output then emits
\* (34915192 * 34915192 as the one 16-digit value 1219070632396864), and an
\* Output of a literal emits the literal.
C22_Product ==
    /\ (in_i64(wide.l) /\ in_i64(wide.r))
        => /\ wide.at \notin {"Panicked", "Wrapped"}
           /\ wide.at \in {"Multiplied", "Emitted"}
                => IsProduct(wide.cell, wide.l, wide.r)
           /\ wide.at = "Emitted" => wide.output = <<wide.cell>>
    /\ (wide.l = Factor /\ wide.r = Factor /\ wide.at = "Emitted")
        => /\ wide.output = <<Wide(FALSE, <<6864, 3239, 706, 1219>>)>>
           /\ Digits(wide.output[1].mag) = 16
    /\ wide.at = "Literal" => wide.output = <<wide.l>>

\* the product of the two ends of the 64-bit range was stored and emitted
C22_Witness ==
    /\ wide.l = Wide(FALSE, <<5807, 5477, 368, 3372, 922>>)
    /\ wide.r = Wide(TRUE, <<5808, 5477, 368, 3372, 922>>)
    /\ wide.at = "Emitted"
    /\ wide.output[1].neg
    /\ Len(wide.output[1].mag) = 10

----------------------------------------------------------------------------
(* C23 *)

C23_Returned ==
    call.at = "Returned"
    => /\ engines[0].exited
       /\ engines[0].st.result = "Halted"
       /\ side.at = "Returned"
       /\ call.value = side.value
       /\ call.program = engines[0].st.program

C23_NoPanic ==
    engines[0].st.result = "Halted" => call.at \notin {"Unwinding", "Panicked"}

C23_BothDone == engines[0].st.result = "Halted" /\ side.at = "Returned"

\* C23: execute_side_by_side returns only after the engine has halted and
\* its thread and the thread of f have ended, it returns the value of f, and
\* the caller's program is then the final memory of the engine; when the
\* engine halts and f returns, the call does return.
C23_SideBySide ==
    /\ []C23_Returned
    /\ []C23_NoPanic
    /\ C23_BothDone ~> call.at = "Returned"

\* the echo program received 1 from f, sent it back and halted; the call
\* returned what f had received, the caller's program holding the 1
C23_Witness ==
    /\ initial = <<3, 0, 4, 0, 99>>
    /\ call.at = "Returned"
    /\ call.value = <<1>>
    /\ call.program = <<1, 0, 4, 0, 99>>

----------------------------------------------------------------------------
(* C24 *)

\* the engine is about to execute an Input
AtInput(i) ==
    /\ ~engines[i].exited
    /\ engines[i].st.result = "Running"
    /\ next_name(engines[i]) = "Input"

InputEmpty(i) == chans[engines[i].rx].queue = <<>>

InputClosed(i) == InputEmpty(i) /\ chans[engines[i].rx].senders = 0

C24_Step ==
    (AtInput(0) /\ InputClosed(0) /\ engines'[0] # engines[0])
    => /\ engines'[0].st.result = "Failed"
       /\ engines'[0].st.error = "No more input is available"
       /\ engines'[0].st.program = engines[0].st.program
       /\ engines'[0].st.pc = engines[0].st.pc

\* the engine at an Input can go on unless the channel is empty and a
\* sender is alive
C24_Blocks ==
    AtInput(0)
    => ((ENABLED EngNext) <=> ~(InputEmpty(0) /\ chans[0].senders > 0))

\* C24: an engine at an Input whose channel is empty and has no sender left
\* does not block: it fails with the input-exhausted error; it is blocked
\* only while the channel is empty and a sender is alive.
C24_ClosedInput ==
    /\ [][C24_Step]_vars
    /\ []C24_Blocks
    /\ (AtInput(0) /\ InputClosed(0)) ~> (engines[0].st.result = "Failed")

\* the echo loop had echoed one value when f dropped its sender: the next
\* Input failed
C24_Witness ==
    /\ initial = <<3, 7, 4, 7, 1105, 1, 0>>
    /\ engines[0].inputs = <<1>>
    /\ engines[0].st.output = <<1>>
    /\ engines[0].st.result = "Failed"
    /\ engines[0].st.error = "No more input is available"
    /\ engines[0].st.pc = 0

----------------------------------------------------------------------------
(* C25 *)

\* the thread of the engine has ended: its Sender is dropped
C25_Dropped == engines[0].exited => chans[1].senders = 0

\* f has seen the closed signal: it has received every value the engine
\* emitted, in order, and the engine has stopped
C25_Drained ==
    side.closed
    => /\ side.received = engines[0].st.output
       /\ engines[0].exited
       /\ chans[1].queue = <<>>

\* C25: when the engine stops, its output Sender is dropped; a consumer that
\* drains the Receiver gets every value the engine emitted, in order, and
\* only then the closed signal, and the draining loop ends once the engine
\* has stopped.
C25_DrainEnds ==
    /\ []C25_Dropped
    /\ []C25_Drained
    /\ (side.drain /\ engines[0].st.result # "Running")
            ~> (side.closed /\ side.at = "Returned")

\* a draining f has received the two values of the engine, then the closed
\* signal, and has returned them
C25_Witness ==
    /\ initial = <<104, 1, 104, 2, 99>>
    /\ side.drain
    /\ side.closed
    /\ side.at = "Returned"
    /\ side.value = <<1, 2>>
    /\ engines[0].st.result = "Halted"

----------------------------------------------------------------------------
(* C26 *)

\* the values f has sent while the Receiver of the engine was alive
Counted(n) == [k \in 1..n |-> k]

\* the values the engine has sent are those f has received followed by
\* those still queued
C26_Output == side.received \o chans[1].queue = engines[0].st.output

\* the values the engine has received followed by those still queued are
\* the values f has sent, all of them while the engine's Receiver is alive
C26_Input ==
    /\ \E n \in 0..side.sends :
            engines[0].inputs \o chans[0].queue = Counted(n)
    /\ chans[0].receivers > 0
       => engines[0].inputs \o chans[0].queue = Counted(side.sends)

----------------------------------------------------------------------------
(* C27 *)

AtOutput(i) ==
    /\ ~engines[i].exited
    /\ engines[i].st.result = "Running"
    /\ next_name(engines[i]) = "Output"

\* the statement as written: a channel never holds more than one value
C27_LockStep == \A c \in DOMAIN chans : Len(chans[c].queue) <= 1

\* an engine at an Output is never blocked, whatever its channel holds
C27_ProducerFree == AtOutput(0) => ENABLED EngNext

\* f waiting for a value is blocked while the channel is empty and the
\* Sender of the engine is alive, and only then
C27_ConsumerWaits ==
    (side.at = "Running" /\ ~side.closed)
    => ((ENABLED (SideRecv \/ SideRecvClosed))
            <=> ~(chans[1].queue = <<>> /\ chans[1].senders > 0))

\* C27: the threads synchronize through the channel alone: a consumer waits
\* at a receive until a value is there, a producer never waits at an Output
\* and may run ahead of its consumer, so any number of emitted values may
\* be pending on a channel.
C27_RunsAhead == C27_ProducerFree /\ C27_ConsumerWaits

\* the engine has emitted two values and halted before f has received any
C27_Witness ==
    /\ initial = <<104, 1, 104, 2, 99>>
    /\ chans[1].queue = <<1, 2>>
    /\ side.received = <<>>
    /\ side.at = "Running"
    /\ engines[0].st.result = "Halted"

----------------------------------------------------------------------------
(* C28 *)

\* the first value an engine has received is its phase digit
C28_PhaseFirst ==
    \A i \in DOMAIN engines :
        engines[i].inputs # <<>> => engines[i].inputs[1] = amain.phase[i + 1]

\* until an engine receives, its phase digit is the first value of its
\* channel, ahead of the initial signal and of what the ring sends (the
\* final recv of main aside, which takes from the first channel)
C28_PhaseAtHead ==
    \A i \in DOMAIN engines :
        (engines[i].inputs = <<>> /\ (i = 0 => amain.value = <<>>))
        => /\ chans[i].queue # <<>>
           /\ Head(chans[i].queue) = amain.phase[i + 1]

\* C28: the phase digits are on the channels before any engine thread
\* runs, so in every interleaving the first value engine i receives is
\* phase[i], and engine 0 receives the initial signal 0 only after its
\* phase digit.
C28_PhaseLoaded == C28_PhaseFirst /\ C28_PhaseAtHead

\* the five engines of the first example have received their phase digit
\* and then their signal, engine 0 the initial signal 0
C28_Witness ==
    /\ initial = EXAMPLE_PROGRAM_1
    /\ engines[0].inputs = <<4, 0>>
    /\ engines[1].inputs = <<3, 4>>
    /\ engines[4].inputs = <<0, 4321>>

----------------------------------------------------------------------------
(* C29 *)

Last(q) == q[Len(q)]

AllHalted == \A i \in DOMAIN engines : engines[i].st.result = "Halted"

\* C29: amplifier ends once every engine of the ring has halted, and the
\* value it returns is the last value the last engine sent on the channel
\* that feeds engine 0.
C29_ReturnsLast ==
    (amain.at = "Returned" /\ amain.value # <<>> /\ AllHalted)
    => /\ engines[Len(amain.phase) - 1].st.output # <<>>
       /\ amain.value = <<Last(engines[Len(amain.phase) - 1].st.output)>>

----------------------------------------------------------------------------
(* C30 *)

\* the ring when the initial signal is sent before any engine runs
seq_init(p, phase) ==
    [engines |-> ring_engines(p, Len(phase)),
     chans |-> [c \in 0..(Len(phase) - 1) |->
                    IF c = 0 THEN Channel(<<phase[1], 0>>, 1, 2)
                    ELSE ring_channel(phase, c)]]

ring_size(r) == Cardinality(DOMAIN r.engines)

\* the memory of engine i written out cell by cell
settle(r, i) == [r EXCEPT !.engines[i].st.program = @ \o <<>>]

\* one turn of the round robin from a = [r, i, idle]: engine i makes an
\* iteration, or the turn passes to the next engine when it waits or has
\* ended; nothing changes once no engine of a whole round could run
seq_turn(a) ==
    IF a.idle = ring_size(a.r) THEN a
    ELSE IF step_kind(a.r.engines, a.r.chans, a.i) \in {"Blocked", "Done"}
    THEN [a EXCEPT !.i = (a.i + 1) % ring_size(a.r), !.idle = a.idle + 1]
    ELSE [a EXCEPT !.r = settle(engine_step(a.r.engines, a.r.chans, a.i), a.i),
                   !.idle = 0]

RECURSIVE seq_run(_, _)
\* 2^k turns, each half computed once
seq_run(a, k) ==
    IF k = 0 THEN seq_turn(a)
    ELSE CHOOSE out \in {seq_run(x, k - 1) : x \in {seq_run(a, k - 1)}} : TRUE

seq_output(r) == r.engines[ring_size(r) - 1].st.output

seq_final(p, phase) ==
    seq_output(seq_run([r |-> seq_init(p, phase), i |-> 0, idle |-> 0], SeqTurns).r)

\* the final signal of the sequential simulation: the last value of the
\* last engine
seq_signal(p, phase) ==
    IF seq_final(p, phase) = <<>> THEN <<>> ELSE <<Last(seq_final(p, phase))>>

\* C30: five engines in a ring return, in every interleaving, the final
\* signal of the sequential round-robin simulation of the same program and
\* phases.
C30_SameAsSequential ==
    (amain.at = "Returned" /\ Len(amain.phase) = 5 /\ amain.error = "")
    => amain.value = seq_signal(initial, amain.phase)

----------------------------------------------------------------------------
(* C31 *)

\* a step of the thread of engine i
EngStep(i) ==
    /\ step_kind(engines, chans, i) \notin {"Blocked", "Done"}
    /\ Take(i)

\* the thread of engine i has not ended and cannot take a step
Suspended(i) == ~engines[i].exited /\ ~ENABLED EngStep(i)

\* C31: an engine thread is suspended only at an Input whose channel is
\* empty while a sender is alive: an Output never waits, whatever its
\* channel holds, and no other instruction waits on another thread.
C31_OnlyInputWaits ==
    \A i \in DOMAIN engines :
        Suspended(i)
        <=> /\ AtInput(i)
            /\ InputEmpty(i)
            /\ chans[engines[i].rx].senders > 0

\* the echoing engine has sent back the value it received, which f has
\* not taken yet, and waits at its next Input while f holds its Sender
C31_Witness ==
    /\ initial = <<3, 7, 4, 7, 1105, 1, 0>>
    /\ Suspended(0)
    /\ engines[0].inputs = <<1>>
    /\ chans[1].queue = <<1>>
    /\ side.holds_tx

----------------------------------------------------------------------------
(* C32 *)

\* C32: for a program that halts after emitting its outputs in (colour,
\* turn) pairs the painter never panics at its send: it ends by finding
\* the output of the engine closed, and paint_common returns the hull.
C32_PainterReturns ==
    /\ side.at # "Panicked"
    /\ call.at = "Panicked" => engines[0].st.result # "Halted"

----------------------------------------------------------------------------
(* C33 *)

EngineErr == engines[0].exited /\ engines[0].st.result = "Failed"

\* after an Err of the engine the call does not return, and the panic it
\* ends with is that of expect("Execution failed")
C33_NoReturn ==
    EngineErr
    => /\ call.at \in {"JoinComputer", "Unwinding", "Panicked"}
       /\ call.at # "JoinComputer" => call.error = "Execution failed"
       /\ call.value = <<>>

\* C33: execute_side_by_side returns normally only if the engine stopped at
\* a Halt; when the engine ends with an Err the call panics with
\* "Execution failed" and the result of f is not returned.
C33_ExecutionFailed ==
    /\ []C33_NoReturn
    /\ [](call.at = "Returned" => engines[0].st.result = "Halted")
    /\ (EngineErr /\ side.at = "Returned")
            ~> (call.at = "Panicked" /\ call.error = "Execution failed")

\* f returned without sending, the engine found its input closed, and the
\* call panicked
C33_Witness ==
    /\ initial = <<3, 0, 4, 0, 99>>
    /\ engines[0].st.error = "No more input is available"
    /\ side.at = "Returned"
    /\ side.sends = 0
    /\ call.at = "Panicked"
    /\ call.error = "Execution failed"

----------------------------------------------------------------------------
(* C34 *)

\* the addresses whose value, seen zero-extended, the step changes
Changed == {i \in 0..(MaxMemory + 1) : ZMem(program', i) # ZMem(program, i)}

\* the parameter that is the out parameter of the instruction at pc
OutParam == IF RawOpcode = 3 THEN 1 ELSE 3

C34_Step ==
    /\ Len(program') >= Len(program)
    /\ Executed
       => /\ Cardinality(Changed) <= 1
          /\ RawOpcode \in {1, 2, 3, 7, 8} => Changed \subseteq {OperandAddr(OutParam)}
          /\ RawOpcode \in {4, 5, 6, 9, 99} => program' = program
          /\ RawOpcode # 9 => relative_base' = relative_base
    /\ relative_base' # relative_base => (result = "Running" /\ RawOpcode = 9)

\* C34: seen zero-extended, an executed instruction changes the value of
\* at most one cell, the out address of an Add, Multiply, Input, LessThan
\* or Equals; the other instructions leave memory as it is; only
\* AdjustRelativeBase changes the relative base; memory never gets shorter.
C34_Frame == [][C34_Step]_vars

\* an Add has stored its sum beyond the end of memory, which has grown;
\* the cells it had are as they were
C34_Witness ==
    /\ op.name = "Add"
    /\ result = "Running"
    /\ Len(program) > Len(initial)
    /\ SubSeq(program, 1, Len(initial)) = initial
    /\ program[Len(program)] # 0

----------------------------------------------------------------------------
(* C35 *)

\* the instruction at pc is an AdjustRelativeBase whose operand can be read
\* and would bring the relative base below zero
AdjustsBelowZero ==
    /\ result = "Running"
    /\ pc + 1 < Len(program)
    /\ Cell(program, pc) >= 0
    /\ RawOpcode = 9
    /\ ModeDigit(1) \in 0..2
    /\ ModeDigit(1) # 1 => OperandAddr(1) >= 0
    /\ relative_base + OperandValue(1) < 0

C35_Step ==
    AdjustsBelowZero
    => /\ result' = "Panicked"
       /\ relative_base' = relative_base
       /\ pc' = pc
       /\ program' = program

\* C35: the relative base is never negative: an AdjustRelativeBase that
\* would bring it below zero panics and stores nothing, though its operand
\* and the offsets of Relative parameters may be negative.
C35_BaseNonNegative == [](relative_base >= 0) /\ [][C35_Step]_vars

\* an AdjustRelativeBase of -1 at base 0 has panicked, the base still 0
C35_Witness ==
    /\ initial = <<109, -1, 99, 5, 6>>
    /\ result = "Panicked"
    /\ error = "Cannot convert absolute address"
    /\ relative_base = 0
    /\ pc = 0

----------------------------------------------------------------------------
(* C36 *)

\* the instruction at pc has an opcode of 1 to 9 and its operand cells
\* reach past the end of memory
OperandsMissing ==
    /\ result = "Running"
    /\ pc < Len(program)
    /\ RawOpcode \in 1..9
    /\ pc + Arity(RawOpcode) >= Len(program)

C36_Step ==
    OperandsMissing
    => /\ result' = "Failed"
       /\ error' = "Not enough arguments"
       /\ program' = program
       /\ pc' = pc
       /\ relative_base' = relative_base
       /\ output' = output
       /\ input_pos' = input_pos

\* C36: an instruction of opcode 1 to 9 whose operand cells reach past the
\* end of memory is not decoded: the run fails with "Not enough arguments",
\* memory and pc as they were; the missing cells are not taken as zeros.
C36_NotEnoughArguments == [][C36_Step]_vars

\* [5,0,0,99,5,6] jumped to cell 5, a JumpIfFalse without operand cells
C36_Witness ==
    /\ initial = <<5, 0, 0, 99, 5, 6>>
    /\ program = initial
    /\ pc = 5
    /\ result = "Failed"
    /\ error = "Not enough arguments"

----------------------------------------------------------------------------
(* C37 *)

\* the parameters of the instruction at pc whose mode digit is not 0, 1, 2
BadModes == {k \in 1..Arity(RawOpcode) : ModeDigit(k) \notin 0..2}

\* the parameters whose value does not convert: a negative Position
BadValues ==
    {k \in 1..Arity(RawOpcode) :
        pc + k < Len(program) /\ ModeDigit(k) = 0 /\ RawOperand(k) < 0}

\* the instruction cell is not negative, its opcode is one of 1 to 9
AtInstruction ==
    /\ result = "Running"
    /\ pc < Len(program)
    /\ Cell(program, pc) >= 0
    /\ RawOpcode \in 1..9

\* the instruction cell is negative, and its magnitude would be an
\* instruction of opcode 1 to 9 with a nonzero digit for a parameter
NegativeDigits ==
    /\ result = "Running"
    /\ pc < Len(program)
    /\ Cell(program, pc) < 0
    /\ Rem(-Cell(program, pc), 100) \in 1..9
    /\ \E k \in 1..Arity(Rem(-Cell(program, pc), 100)) :
            modes(Cell(program, pc), k) < 0

\* the run fails with the error msg, nothing else changed
FailsWith(msg) ==
    /\ result' = "Failed"
    /\ error' = msg
    /\ program' = program
    /\ pc' = pc
    /\ relative_base' = relative_base

\* the statement as written: a mode digit that is not 0, 1 or 2, or is
\* negative, always gives "Unknown mode"
C37_AsWritten ==
    [][((AtInstruction /\ BadModes # {}) \/ NegativeDigits)
        => FailsWith("Unknown mode")]_vars

C37_Step ==
    /\ (AtInstruction /\ BadModes # {} /\ pc + Arity(RawOpcode) < Len(program))
       => IF \E j \in BadValues : \A k \in BadModes : j < k
          THEN FailsWith("TryFromIntError")
          ELSE FailsWith("Unknown mode")
    /\ (AtInstruction /\ BadModes # {} /\ pc + Arity(RawOpcode) >= Len(program))
       => FailsWith("Not enough arguments")
    /\ NegativeDigits => FailsWith("Unknown opcode")
    /\ (AtInstruction /\ BadModes = {} /\ BadValues = {}
            /\ pc + Arity(RawOpcode) < Len(program))
       => op'.name = OpName(RawOpcode)
    /\ (result = "Running" /\ pc < Len(program) /\ Cell(program, pc) >= 0
            /\ RawOpcode = 99)
       => result' = "Halted"

\* C37: an instruction of opcode 1 to 9 with all its operand cells, a mode
\* digit other than 0, 1, 2 for a parameter it uses and no negative
\* Position value before that parameter fails with "Unknown mode", memory,
\* pc and relative base as they were; without all its operand cells it
\* fails with "Not enough arguments", with such a value before with the
\* conversion error; a negative instruction cell fails with "Unknown
\* opcode"; the digits of parameters the opcode does not use are ignored.
C37_UnknownMode == [][C37_Step]_vars

\* an Add whose first mode digit is 3 has failed
C37_Witness ==
    /\ initial = <<301, 0, 0, 0, 99>>
    /\ program = initial
    /\ pc = 0
    /\ result = "Failed"
    /\ error = "Unknown mode"

----------------------------------------------------------------------------
(* C38 *)

\* the engine is at an Output and no Receiver of its output is left
OutputDropped == AtOutput(0) /\ chans[engines[0].tx].receivers = 0

C38_Step ==
    (OutputDropped /\ engines'[0] # engines[0])
    => /\ engines'[0].st.result = "Panicked"
       /\ engines'[0].st.error = "Unable to output to channel"
       /\ engines'[0].st.pc = engines[0].st.pc
       /\ engines'[0].st.output = engines[0].st.output
       /\ engines'[0].st.program = engines[0].st.program
       /\ chans' = chans

\* once the engine thread has panicked the call never returns
C38_Panicked ==
    engines[0].st.error = "Unable to output to channel"
    => /\ engines[0].st.result = "Panicked"
       /\ call.at # "Returned"
       /\ call.at \in {"Unwinding", "Panicked"} => call.error = "Computer panicked"

\* C38: an Output on a channel without any Receiver left gives no error
\* value: the send fails, the engine thread panics with "Unable to output
\* to channel", the value is lost and pc stays at the Output.
C38_OutputPanics == [][C38_Step]_vars /\ []C38_Panicked

\* f returned before the first Output of the engine, whose thread panicked
\* at cell 0; the call panicked
C38_Witness ==
    /\ initial = <<104, 1, 104, 2, 99>>
    /\ engines[0].st.result = "Panicked"
    /\ engines[0].st.error = "Unable to output to channel"
    /\ engines[0].st.pc = 0
    /\ engines[0].st.output = <<>>
    /\ chans[1].queue = <<>>
    /\ call.at = "Panicked"

----------------------------------------------------------------------------
(* C39 *)

\* some engine of the ring has stopped: halted or failed
AnyStopped == \E i \in DOMAIN engines : engines[i].st.result \in {"Halted", "Failed"}

\* engine i has halted, or failed with its input exhausted
HaltedOrExhausted(i) ==
    \/ engines[i].st.result = "Halted"
    \/ /\ engines[i].st.result = "Failed"
       /\ engines[i].st.error = "No more input is available"

\* C39: in the ring of amplifier, once one engine has stopped, every engine
\* eventually has halted or failed with its input exhausted, none stays
\* blocked in a receive, and amplifier returns Ok or Err.
C39_TerminationPropagates ==
    AnyStopped ~> /\ \A i \in DOMAIN engines : HaltedOrExhausted(i) /\ engines[i].exited
                  /\ amain.at = "Returned"

----------------------------------------------------------------------------
(* C40 *)

\* the run of day 5 indexed its slice outside its length
OutsideMemory ==
    runs[2].st.error \in {"index out of bounds", "range end index out of range"}

\* both runs are over, every instruction met was one of day 5 and every
\* address used was inside the initial memory
Day05Program ==
    /\ Finished(1) /\ Finished(2)
    /\ ~runs[1].foreign /\ ~runs[2].foreign
    /\ ~OutsideMemory

\* C40: on a program of opcodes 1-8 and 99 with mode digits 0 and 1 that
\* stays inside its initial memory and inside 32 bits, the library engine
\* and the engine of day 5, given the same input, end with the same
\* output, the same memory and the same outcome.
C40_SameAsDay05 ==
    Day05Program
    => /\ runs[1].st.output = runs[2].st.output
       /\ runs[1].st.program = runs[2].st.program
       /\ runs[1].st.result = runs[2].st.result
       /\ runs[1].st.error = runs[2].st.error
       /\ runs[1].st.input_pos = runs[2].st.input_pos

\* compare_instructions of day 5, run to its Halt by both engines
C40_Witness ==
    /\ initial = <<3, 9, 8, 9, 10, 9, 4, 9, 99, -1, 8>>
    /\ input_values = <<8, 0>>
    /\ Day05Program
    /\ runs[2].st.result = "Halted"
    /\ runs[2].st.output = <<1>>
    /\ runs[1].st.output = <<1>>
    /\ runs[1].st.program[10] = 1

====
